---- MODULE Spec2Model ----
(***************************************************************************)
(* A model of the mailbox archiver's index pipeline                        *)
(* (pysrc/cli_routes/outlook/index.py, pysrc/helpers/outlook/indexing.py,  *)
(* pysrc/helpers/shortcodes.py, pysrc/call_route.py).                      *)
(*                                                                         *)
(* Conventions.  A Python str is a sequence of character codes; the empty  *)
(* sequence <<>> stands for both "" and None (both are falsy, and the code *)
(* only ever tests these values for truth).  A dict is a function whose    *)
(* DOMAIN is the set of its keys; an insertion-ordered dict whose order is *)
(* observable is a sequence of [k, v] pairs.  A file is a record           *)
(* [ok, data]: ok = FALSE is a file that was created by open(.., "w") but  *)
(* whose content never arrived, data is the JSON value it holds.           *)
(***************************************************************************)
EXTENDS Integers, Sequences, FiniteSets, TLC

VARIABLES
    \* ---- the remote mailbox and the digest function (fixed in a behaviour)
    hashPos,        \* where the digests of two ids can first differ
    remoteSizes,    \* folder id -> number of top-level messages
    \* ---- the working directory .dsed/
    jwt,            \* .dsed/jwt.json holds a token
    foldersFile,    \* .dsed/index/folders.json: [exists, ok, data]
    shortcodesFile, \* .dsed/index/shortcodes/folders.json: [exists, ok, data]
    idsFiles,       \* .dsed/index/top-level-messages/<name>.json
    metaFiles,      \* .dsed/index/top-level-message-metadata/<name>.json
    convFiles,      \* .dsed/index/conversations-organized/<name>.json
    \* ---- the running command
    pc,             \* "idle", "done", or the position inside impl_outlook_index
    result,         \* "none" | "ok" (0) | "fail" (-1) | "crash" (an exception)
    local,          \* the local variables of the run and of the helper it is in
    \* ---- history of the current run (read by the properties only)
    calls,          \* the requests call_route has sent, in order
    writes,         \* the files opened for writing and written, in order
    failedStep,     \* the step that returned False or raised, and its folder
    startedFull,    \* the run began with every artifact of every folder present
    resume,         \* the conversation artifact deleted from a fully indexed state
    listFailed,     \* the folder whose id listing last failed after its first page
    sanityLog,      \* the count last reported to a sanity check, and the standing failure
    \* ---- the sanity check, called on drawn inputs (SpecSanity)
    snPc,           \* "input" | "checked"
    snDir,          \* the id-list directory: at most the folder's file
    snResp,         \* what call_route returned: [kind, total]
    snVerdict,      \* "none" | "pass" | "fail" | "crash"
    \* ---- the shortcode builder, called on drawn inputs (SpecShortcode)
    scPc,           \* "input" | "built1" | "built2"
    scValues1,      \* the first invocation's argument
    scValues2,      \* the second invocation's argument
    scResult1,      \* what the first invocation returned
    scResult2,      \* what the second invocation returned
    \* ---- the threader, called on drawn metadata (SpecThreader)
    thPc,           \* "input" | "done"
    thMeta,         \* the metadata artifact: id -> metadata, in file order
    thOut,          \* [raised, conversations]: what the threader produced
    \* ---- the naming helpers of the export, on drawn names (SpecNaming)
    nmPc,           \* "input" | "safe" | "again" | "truncated"
    nmInput,        \* the raw name
    nmOnce,         \* _safe_filename(nmInput)
    nmTwice,        \* _safe_filename(nmOnce)
    nmLimit,        \* max_subject_chars
    nmTrunc,        \* _truncate_subject(nmOnce, limit=nmLimit)
    \* ---- the download and export commands (SpecArchive)
    arPc,           \* "ready", "done", or the loop the command is in
    arBox,          \* the indexed mailbox: folders, conversations, messages
    arDir,          \* .dsed/: [jwt, forest, convs, cache, bundles]
    arRejected,     \* the backend answers 401 to the stored token
    arRun,          \* the running command, its position and its last step
    arCalls,        \* the requests of the current run, in order
    arOut,          \* the paths under the output directory
    \* ---- the ordinal prefixes of the export (SpecOrdinal)
    opPc,           \* "input" | "done"
    opTotal,        \* the number of conversations (or messages) enumerated
    opPrefixes,     \* position -> _order_prefix(position, opTotal)
    \* ---- the folder directories of the export (SpecFolderPaths)
    fpPc,           \* "input" | "done"
    fpForest,       \* the forest as the provider gives it: no shortcodes
    fpDirs,         \* [ok, dirs]: folder by folder, [id, path]
    \* ---- the hydration helper on drawn responses (SpecHydrate)
    hyPc,           \* "input" | "done"
    hyIds,          \* the folder's id list
    hyKinds,        \* chunk -> what the backend answers to its request
    hyOut,          \* [verdict, file]: what the helper returned and wrote
    \* ---- the threading helper on drawn directories (SpecRethread)
    rtPc,           \* "input" | "done"
    rtMeta,         \* the folder's metadata artifact: [exists, ok, data]
    rtConv,         \* the folder's conversation artifact: [exists, ok, data]
    rtOut,          \* [verdict, conv]: what the helper returned and left
    \* ---- bundle locations of one folder, from threading to export (SpecBundles)
    bdPc,           \* "input" | "indexed" | "downloaded" | "exported"
    bdMeta,         \* the folder's metadata artifact, in file order
    bdConv,         \* the conversation artifact: [exists, ok, data]
    bdFirst,        \* the payload the threader wrote
    bdCache,        \* cache directory -> the message ids exported into it
    bdRun,          \* the download runs so far: [runs, result, rewrites]
    bdOut,          \* the export run: [result, visited, missing]
    \* ---- the folder traversals of the three commands (SpecTraversal)
    tvPc,           \* "input" | "stage" | "indexed" | "failed"
    tvForest,       \* the forest: fetched, then as folders.json holds it
    tvSeen,         \* traversal -> the folder ids it yielded, in order
    tvStages,       \* index stage -> the folder ids processed so far
    \* ---- call_route and its progress thread (SpecSpinner)
    spPc,           \* the main thread: "ready", "started", "request", "finally", "joining", "returned", "raised"
    spJwt,          \* .dsed/jwt.json holds a token
    spResp,         \* what the request does: "2xx", "non2xx", "raise"
    spPending,      \* what leaves the try block: "summary", "exception", "interrupt"
    spStop,         \* the Event stop is set
    spThread,       \* the thread t: "none", "running", "printing", "exited"
    spFrame,        \* i % len(frames) of the spinner
    spValue,        \* what call_route gave: "summary", "None", "exception", "interrupt"
    spCalls,        \* the calls made so far
    \* ---- the reset of the index and of the caches (SpecReset)
    rsTree,         \* the paths that exist under the working directory
    rsBefore,       \* the paths that existed when the last command began
    rsOp,           \* the last command: "index", "index-reset", "download", "download-reset"
    rsResult,       \* what it returned: 0, -1
    rsCalls,        \* the requests sent so far
    \* ---- safe delete (SpecSafeDelete)
    sdPc,           \* "input", "found", "previewed", "confirmed", "done"
    sdArgs,         \* the options of the command
    sdJwt,          \* .dsed/jwt.json holds a token
    sdFind,         \* the answer to the find request
    sdMatches,      \* the local variable matches
    sdAnswer,       \* what the user answered to click.confirm: "none", "yes", "no"
    sdCalls,        \* the requests call_route has sent, in order
    sdResult        \* "none", "ok" (0), "fail" (-1), "crash" (an exception)

remoteVars == <<hashPos, remoteSizes>>

fileVars == <<foldersFile, shortcodesFile, idsFiles, metaFiles, convFiles>>

ctlVars == <<pc, result, local, failedStep>>

histVars == <<calls, writes, startedFull, resume, listFailed, sanityLog>>

indexVars == <<remoteSizes, jwt, fileVars, ctlVars, histVars>>

snVars == <<snPc, snDir, snResp, snVerdict>>

scVars == <<scPc, scValues1, scValues2, scResult1, scResult2>>

thVars == <<thPc, thMeta, thOut>>

\* the operations checked on drawn inputs, each under its own specification
nmVars == <<nmPc, nmInput, nmOnce, nmTwice, nmLimit, nmTrunc>>

arVars == <<arPc, arBox, arDir, arRejected, arRun, arCalls, arOut>>

opVars == <<opPc, opTotal, opPrefixes>>

fpVars == <<fpPc, fpForest, fpDirs>>

hyVars == <<hyPc, hyIds, hyKinds, hyOut>>

rtVars == <<rtPc, rtMeta, rtConv, rtOut>>

bdVars == <<bdPc, bdMeta, bdConv, bdFirst, bdCache, bdRun, bdOut>>

tvVars == <<tvPc, tvForest, tvSeen, tvStages>>

spVars == <<spPc, spJwt, spResp, spPending, spStop, spThread, spFrame, spValue, spCalls>>

rsVars == <<rsTree, rsBefore, rsOp, rsResult, rsCalls>>

sdVars == <<sdPc, sdArgs, sdJwt, sdFind, sdMatches, sdAnswer, sdCalls, sdResult>>

pureVars == <<snVars, scVars, thVars, nmVars, arVars, opVars, fpVars, hyVars, rtVars, bdVars, tvVars, spVars, rsVars, sdVars>>

exceptSn == <<hashPos, indexVars, scVars, thVars, nmVars, arVars, opVars, fpVars, hyVars, rtVars, bdVars, tvVars, spVars, rsVars, sdVars>>

exceptSc == <<hashPos, indexVars, snVars, thVars, nmVars, arVars, opVars, fpVars, hyVars, rtVars, bdVars, tvVars, spVars, rsVars, sdVars>>

exceptTh == <<hashPos, indexVars, snVars, scVars, nmVars, arVars, opVars, fpVars, hyVars, rtVars, bdVars, tvVars, spVars, rsVars, sdVars>>

exceptNm == <<hashPos, indexVars, snVars, scVars, thVars, arVars, opVars, fpVars, hyVars, rtVars, bdVars, tvVars, spVars, rsVars, sdVars>>

exceptAr == <<hashPos, indexVars, snVars, scVars, thVars, nmVars, opVars, fpVars, hyVars, rtVars, bdVars, tvVars, spVars, rsVars, sdVars>>

exceptOp == <<hashPos, indexVars, snVars, scVars, thVars, nmVars, arVars, fpVars, hyVars, rtVars, bdVars, tvVars, spVars, rsVars, sdVars>>

exceptFp == <<hashPos, indexVars, snVars, scVars, thVars, nmVars, arVars, opVars, hyVars, rtVars, bdVars, tvVars, spVars, rsVars, sdVars>>

exceptHy == <<hashPos, indexVars, snVars, scVars, thVars, nmVars, arVars, opVars, fpVars, rtVars, bdVars, tvVars, spVars, rsVars, sdVars>>

exceptRt == <<hashPos, indexVars, snVars, scVars, thVars, nmVars, arVars, opVars, fpVars, hyVars, bdVars, tvVars, spVars, rsVars, sdVars>>

exceptBd == <<hashPos, indexVars, snVars, scVars, thVars, nmVars, arVars, opVars, fpVars, hyVars, rtVars, tvVars, spVars, rsVars, sdVars>>

exceptTv == <<hashPos, indexVars, snVars, scVars, thVars, nmVars, arVars, opVars, fpVars, hyVars, rtVars, bdVars, spVars, rsVars, sdVars>>

exceptSp == <<hashPos, indexVars, snVars, scVars, thVars, nmVars, arVars, opVars, fpVars, hyVars, rtVars, bdVars, tvVars, rsVars, sdVars>>

exceptRs == <<hashPos, indexVars, snVars, scVars, thVars, nmVars, arVars, opVars, fpVars, hyVars, rtVars, bdVars, tvVars, spVars, sdVars>>

exceptSd == <<hashPos, indexVars, snVars, scVars, thVars, nmVars, arVars, opVars, fpVars, hyVars, rtVars, bdVars, tvVars, spVars, rsVars>>

vars == <<hashPos, indexVars, pureVars>>

(***************************************************************************)
(* Generic helpers of the data model.                                      *)
(***************************************************************************)
Range(s) == {s[i] : i \in DOMAIN s}

\* d[k] = v on a dict
DictPut(d, k, v) == [j \in (DOMAIN d) \cup {k} |-> IF j = k THEN v ELSE d[j]]

EmptyDict == [j \in {} |-> <<>>]

SeqsUpTo(S, n) == UNION {[1..k -> S] : k \in 0..n}

(***************************************************************************)
(* shortcodes.py                                                           *)
(***************************************************************************)
Underscore == 95

\* hex digits are 0..15; "_" is its character code, outside the digits
SHORTCODE_PREFIX == <<Underscore, Underscore>>

SHORTCODE_SUFFIX == <<Underscore, Underscore>>

SHORTCODE_LENGTH_STEPS == <<8, 12, 16, 20, 24, 32, 40, 64>>

DigestLen == 64

\* The number a string of character codes spells (base 256, 16 bits kept).
Code(value) ==
    LET RECURSIVE Fold(_, _)
        Fold(i, acc) ==
            IF i > Len(value) THEN acc
            ELSE Fold(i + 1, (acc * 256 + value[i]) % 65536)
    IN  Fold(1, 0)

HexDigit(n, k) == (n \div (16 ^ (3 - k))) % 16

(* hashlib.sha256(value).hexdigest(): 64 hex digits, a function of the      *)
(* value alone.  The digest of the model is the value's code written as     *)
(* four hex digits at positions hashPos .. hashPos+3 of an otherwise zero   *)
(* digest: where two digests first differ, and whether they differ at all,  *)
(* depends on the two ids and on hashPos, so that every length step can be  *)
(* the first collision-free one and two ids can share a whole digest.       *)
_hash_id(value) ==
    [i \in 1..DigestLen |->
        IF i >= hashPos /\ i <= hashPos + 3
        THEN HexDigit(Code(value), i - hashPos)
        ELSE 0]

\* lines 20-24: drop falsy values and repeats, keep first occurrences in order
SkipValue_KeepsEmpty(value, seen) == value \in seen

SkipValue(value, seen) == value = <<>> \/ value \in seen

\* seen holds every earlier value that was not skipped; an earlier value
\* that was skipped is empty or was in seen already
DedupLoop(values) ==
    LET Kept(j) == ~SkipValue(values[j], {values[i] : i \in 1..(j - 1)})
        kept == SelectSeq([j \in 1..Len(values) |-> j], Kept)
    IN  [k \in 1..Len(kept) |-> values[kept[k]]]

\* lines 34-36
ShortcodeOf(digest, length) ==
    SHORTCODE_PREFIX \o SubSeq(digest, 1, length) \o SHORTCODE_SUFFIX

\* line 38: existing and existing != value
IsCollision_Never(shortcode_to_id, shortcode, value) == FALSE

IsCollision(shortcode_to_id, shortcode, value) ==
    /\ shortcode \in DOMAIN shortcode_to_id
    /\ shortcode_to_id[shortcode] # <<>>
    /\ shortcode_to_id[shortcode] # value

\* a pass that never reports a collision
LengthPass_NoCollision(ids, length) ==
    [collision |-> FALSE,
     shortcode_to_id |->
        [shortcode \in {ShortcodeOf(_hash_id(ids[i]), length) : i \in 1..Len(ids)} |->
            ids[CHOOSE i \in 1..Len(ids) :
                    ShortcodeOf(_hash_id(ids[i]), length) = shortcode]]]

\* lines 31-41: one pass over ids at one length.  Before the i-th id the
\* dict holds, for each shortcode of an earlier id, the last id that had it.
LengthPass(ids, length) ==
    LET code == [i \in 1..Len(ids) |-> ShortcodeOf(_hash_id(ids[i]), length)]
        Last(shortcode, i) ==
            CHOOSE j \in 1..(i - 1) :
                /\ code[j] = shortcode
                /\ \A h \in (j + 1)..(i - 1) : code[h] # shortcode
        DictBefore(i) ==
            [shortcode \in {code[j] : j \in 1..(i - 1)} |-> ids[Last(shortcode, i)]]
    IN  IF \E i \in 1..Len(ids) : IsCollision(DictBefore(i), code[i], ids[i])
        THEN [collision |-> TRUE, shortcode_to_id |-> EmptyDict]
        ELSE [collision |-> FALSE, shortcode_to_id |-> DictBefore(Len(ids) + 1)]

\* line 43: {value: shortcode for shortcode, value in shortcode_to_id.items()}
InvertDict(shortcode_to_id) ==
    [value \in Range(shortcode_to_id) |->
        CHOOSE shortcode \in DOMAIN shortcode_to_id :
            shortcode_to_id[shortcode] = value]

\* lines 30-46: the first step without a collision, or ValueError
RECURSIVE LengthLoop(_, _)
LengthLoop(ids, step) ==
    IF step > Len(SHORTCODE_LENGTH_STEPS)
    THEN [raised |-> TRUE, id_to_shortcode |-> EmptyDict,
          shortcode_to_id |-> EmptyDict, length |-> 0]
    ELSE LET pass == LengthPass(ids, SHORTCODE_LENGTH_STEPS[step])
         IN  IF ~pass.collision
             THEN [raised |-> FALSE,
                   id_to_shortcode |-> InvertDict(pass.shortcode_to_id),
                   shortcode_to_id |-> pass.shortcode_to_id,
                   length |-> SHORTCODE_LENGTH_STEPS[step]]
             ELSE LengthLoop(ids, step + 1)

\* a single id starts at the second length step
build_shortcode_map_LongerAlone(values) ==
    LET ids == DedupLoop(values)
    IN  IF ids = <<>>
        THEN [raised |-> FALSE, id_to_shortcode |-> EmptyDict,
              shortcode_to_id |-> EmptyDict, length |-> 0]
        ELSE LengthLoop(ids, IF Len(ids) = 1 THEN 2 ELSE 1)

\* build_shortcode_map(values) -> (id_to_shortcode, shortcode_to_id, length),
\* raised = TRUE for the ValueError of line 46
build_shortcode_map(values) ==
    LET ids == DedupLoop(values)
    IN  IF ids = <<>>
        THEN [raised |-> FALSE, id_to_shortcode |-> EmptyDict,
              shortcode_to_id |-> EmptyDict, length |-> 0]
        ELSE LengthLoop(ids, 1)

\* lines 49-60: the nodes of the forest in pre-order
RECURSIVE collect_folder_nodes(_)
collect_folder_nodes(folder_forest) ==
    IF folder_forest = <<>> THEN <<>>
    ELSE <<Head(folder_forest)>>
         \o collect_folder_nodes(Head(folder_forest).children)
         \o collect_folder_nodes(Tail(folder_forest))

\* lines 63-74: node["shortcode"] = id_to_shortcode[id] where the id has one
RECURSIVE apply_folder_shortcodes(_, _)
apply_folder_shortcodes(folder_forest, id_to_shortcode) ==
    [k \in 1..Len(folder_forest) |->
        LET node == folder_forest[k]
        IN  [id |-> node.id,
             name |-> node.name,
             shortcode |->
                 IF node.id # <<>> /\ node.id \in DOMAIN id_to_shortcode
                 THEN id_to_shortcode[node.id]
                 ELSE node.shortcode,
             children |-> apply_folder_shortcodes(node.children, id_to_shortcode)]]

\* lines 84-88: the payload write_shortcode_map dumps
ShortcodePayload(map) ==
    [shortcodeLength |-> map.length,
     shortcodeToId |-> map.shortcode_to_id,
     idToShortcode |-> map.id_to_shortcode]

(***************************************************************************)
(* The remote mailbox, as seen through the backend's routes.               *)
(***************************************************************************)
MaxFolderSize == 41

\* the number of ids the remote returns per page of get-id-list
PageSize == 25

\* folder ids are one character long, message ids are <<folder, number>>
InboxId == <<1>>

ArchiveId == <<2>>

Y2023Id == <<3>>

\* get-folders: Inbox, and Archive with its child 2023; no node has a shortcode
RemoteForest ==
    << [id |-> InboxId, name |-> "Inbox", shortcode |-> <<>>, children |-> <<>>],
       [id |-> ArchiveId, name |-> "Archive", shortcode |-> <<>>,
        children |-> << [id |-> Y2023Id, name |-> "2023", shortcode |-> <<>>,
                         children |-> <<>>] >>] >>

RemoteFolderIds == {InboxId, ArchiveId, Y2023Id}

RemoteMessageIds(folderId) ==
    [n \in 1..remoteSizes[folderId] |-> <<folderId[1], n>>]

\* get-id-list(folderId, nextLink): the page the cursor names; a cursor is <<k>>
RemotePage(folderId, nextLink) ==
    LET k == IF nextLink = <<>> THEN 1 ELSE nextLink[1]
        all == RemoteMessageIds(folderId)
        last == IF k * PageSize < Len(all) THEN k * PageSize ELSE Len(all)
    IN  [messageIds |-> SubSeq(all, (k - 1) * PageSize + 1, last),
         nextLink |-> IF k * PageSize < Len(all) THEN <<k + 1>> ELSE <<>>]

\* hydrate-message-metadata: the record of one message.  Conversation ids
\* recur in every folder, every fifth message has none; the ordering token is
\* four base64 characters (their 6-bit values), tokens and epochs repeat.
RemoteMetadata(id) ==
    LET n == id[2]
    IN  [id |-> id,
         conversationId |-> IF n % 5 = 0 THEN <<>> ELSE <<67, n % 3>>,
         conversationIndex |-> <<1, n % 4, (n \div 2) % 3, 0>>,
         receivedEpoch |-> <<1000 + ((n * 7) % 11)>>,
         shortcode |-> <<>>]

RemoteHydrate(ids) == [k \in 1..Len(ids) |-> RemoteMetadata(ids[k])]

(***************************************************************************)
(* indexing.py                                                             *)
(***************************************************************************)
INDEX_SANITY_CHECK_MAX_DISCREPANCY == 100

INDEX_GET_METADATA_CHUNK_SIZE == 20

NoFile == [exists |-> FALSE, ok |-> FALSE, data |-> <<>>]

OpenedFile == [exists |-> TRUE, ok |-> FALSE, data |-> <<>>]

WrittenFile(data) == [exists |-> TRUE, ok |-> TRUE, data |-> data]

\* os.path.isfile / the file at a path of a directory
IsFile(dir, name) == name \in DOMAIN dir

FileAt(dir, name) == IF IsFile(dir, name) THEN dir[name] ELSE NoFile

\* line 46: the id list is listed only while its file is absent
IdsCheckpointed_Never(dir, name) == FALSE

IdsCheckpointed(dir, name) == IsFile(dir, name)

\* line 184: the metadata is hydrated only while its file is absent
MetaCheckpointed_Never(dir, name) == FALSE

MetaCheckpointed(dir, name) == IsFile(dir, name)

\* lines 254-255: the conversations are organized only while their file is absent
ConvCheckpointed_Never(dir, name) == FALSE

ConvCheckpointed(dir, name) == IsFile(dir, name)

\* lines 47-54: the first request of a listing carries no nextLink
FirstPageCursor_Resumes(node) == IF listFailed = node.id THEN <<2>> ELSE <<>>

FirstPageCursor(node) == <<>>

\* lines 13-22: <shortcode>.json, copied from the older <folder id>.json when
\* only that one exists (the copy is a json.load and a json.dump)
_resolve_index_file(dir, folder_id, folder_shortcode) ==
    IF ~IsFile(dir, folder_shortcode) /\ IsFile(dir, folder_id)
    THEN DictPut(dir, folder_shortcode, dir[folder_id])
    ELSE dir

\* lines 24-34: the bytes of a base64 token, given as its 6-bit character
\* values; missing padding is supplied, so 2 or 3 trailing characters give 1
\* or 2 bytes
RECURSIVE _decode_conversation_index(_)
_decode_conversation_index(b64) ==
    IF Len(b64) = 0 THEN <<>>
    ELSE IF Len(b64) >= 4
    THEN << b64[1] * 4 + (b64[2] \div 16),
            (b64[2] % 16) * 16 + (b64[3] \div 4),
            (b64[3] % 4) * 64 + b64[4] >>
         \o _decode_conversation_index(SubSeq(b64, 5, Len(b64)))
    ELSE IF Len(b64) = 3
    THEN << b64[1] * 4 + (b64[2] \div 16), (b64[2] % 16) * 16 + (b64[3] \div 4) >>
    ELSE IF Len(b64) = 2
    THEN << b64[1] * 4 + (b64[2] \div 16) >>
    ELSE <<>>

\* lines 29-34: a token of 4k+1 characters cannot be padded to valid Base64;
\* b64decode raises binascii.Error and so does the URL-safe retry
DecodeRaises(b64) == Len(b64) % 4 = 1

\* -------------------------------------------------------------------------
\* index_folder_sanity_check, lines 104-173, after its request: the verdict
\* on the id-list file and the response call_route returned.
\*   resp.kind: "raise"     requests.request raised inside call_route
\*              "none"      call_route returned None
\*              "nondict"   a 2xx whose data is not a dict
\*              "float"     counts.totalItemCount is a float
\*              "int"       counts.totalItemCount is an int
\* -------------------------------------------------------------------------
Abs(x) == IF x < 0 THEN -x ELSE x

\* line 154
DiscrepancyTooLarge_OffByOne(indexedItemCount, totalItemCount) ==
    Abs(indexedItemCount - totalItemCount) >= INDEX_SANITY_CHECK_MAX_DISCREPANCY

DiscrepancyTooLarge(indexedItemCount, totalItemCount) ==
    Abs(indexedItemCount - totalItemCount) > INDEX_SANITY_CHECK_MAX_DISCREPANCY

\* lines 163-164
HasDuplicates_Never(message_ids) == FALSE

HasDuplicates(message_ids) ==
    Len(message_ids) # Cardinality(Range(message_ids))

SanityVerdict(file, resp) ==
    IF resp.kind = "raise" THEN "crash"                       \* line 122 raises
    ELSE IF resp.kind = "none" THEN "fail"                    \* lines 128-129
    \* lines 130-141: the shape test only prints; a non-dict then raises
    \* TypeError at line 132, a float count is used as it is
    ELSE IF resp.kind = "nondict" THEN "crash"
    ELSE IF ~file.ok THEN "crash"                             \* line 143
    ELSE IF DiscrepancyTooLarge(Len(file.data), resp.total) THEN "fail"
    ELSE IF HasDuplicates(file.data) THEN "fail"
    ELSE "pass"

\* -------------------------------------------------------------------------
\* index_folder_get_top_level_metadata, lines 196-199
\* -------------------------------------------------------------------------
ChunkCount(n) ==
    (n + INDEX_GET_METADATA_CHUNK_SIZE - 1) \div INDEX_GET_METADATA_CHUNK_SIZE

ChunkEnd_Overlapping(message_ids, c) ==
    IF c * INDEX_GET_METADATA_CHUNK_SIZE + 1 < Len(message_ids)
    THEN c * INDEX_GET_METADATA_CHUNK_SIZE + 1
    ELSE Len(message_ids)

ChunkEnd(message_ids, c) ==
    IF c * INDEX_GET_METADATA_CHUNK_SIZE < Len(message_ids)
    THEN c * INDEX_GET_METADATA_CHUNK_SIZE
    ELSE Len(message_ids)

ChunkIds(message_ids) ==
    [c \in 1..ChunkCount(Len(message_ids)) |->
        SubSeq(message_ids, (c - 1) * INDEX_GET_METADATA_CHUNK_SIZE + 1,
               ChunkEnd(message_ids, c))]

\* lines 219-220: zip stops at the shorter of the two; the dict is an
\* insertion-ordered one, a sequence of [k, v]: a key it holds keeps its
\* place and takes the last value given, a new key goes to the end
MergeChunk(all_message_metadata, chunk_ids, messages) ==
    LET m == IF Len(chunk_ids) < Len(messages) THEN Len(chunk_ids) ELSE Len(messages)
        Given(k) == \E j \in 1..m : chunk_ids[j] = k
        LastGiven(k) ==
            messages[CHOOSE j \in 1..m :
                        /\ chunk_ids[j] = k
                        /\ \A h \in (j + 1)..m : chunk_ids[h] # k]
        held == {all_message_metadata[e].k : e \in 1..Len(all_message_metadata)}
        IsNew(j) == /\ chunk_ids[j] \notin held
                    /\ \A i \in 1..(j - 1) : chunk_ids[i] # chunk_ids[j]
        new == SelectSeq([j \in 1..m |-> j], IsNew)
    IN  [e \in 1..Len(all_message_metadata) |->
            IF Given(all_message_metadata[e].k)
            THEN [k |-> all_message_metadata[e].k,
                  v |-> LastGiven(all_message_metadata[e].k)]
            ELSE all_message_metadata[e]]
        \o [p \in 1..Len(new) |->
               [k |-> chunk_ids[new[p]], v |-> LastGiven(chunk_ids[new[p]])]]

\* -------------------------------------------------------------------------
\* index_folder_organize_into_conversations, lines 257-322: the payload
\* computed from the metadata map (an ordered dict, as json.load returns it).
\* -------------------------------------------------------------------------
\* Python's order on sequences (bytes, str): lexicographic
RECURSIVE LexLess(_, _)
LexLess(a, b) ==
    IF b = <<>> THEN FALSE
    ELSE IF a = <<>> THEN TRUE
    ELSE IF Head(a) # Head(b) THEN Head(a) < Head(b)
    ELSE LexLess(Tail(a), Tail(b))

\* dict.get(key, default)
GetOr(d, key, default) == IF key \in DOMAIN d THEN d[key] ELSE default

\* m.get("receivedEpoch", 0), lines 275 and 286.  The JSON value is a number
\* <<n>> or null <<>>; a metadata record without the field gives the default.
EpochOf(m) == GetOr(m, "receivedEpoch", <<0>>)

\* lines 271-276: (idx_bytes, receivedEpoch, id), compared as a tuple
InnerKeyLess(m1, m2) ==
    LET b1 == _decode_conversation_index(m1.conversationIndex)
        b2 == _decode_conversation_index(m2.conversationIndex)
    IN  IF b1 # b2 THEN LexLess(b1, b2)
        ELSE IF EpochOf(m1) # EpochOf(m2)
             THEN EpochOf(m1)[1] < EpochOf(m2)[1]
             ELSE LexLess(m1.id, m2.id)

\* the tuple comparison reaches the epochs (equal token bytes) and they are
\* None and a number: '<' between them raises TypeError
InnerKeyUnordered(m1, m2) ==
    /\ _decode_conversation_index(m1.conversationIndex)
          = _decode_conversation_index(m2.conversationIndex)
    /\ EpochOf(m1) # EpochOf(m2)
    /\ (EpochOf(m1) = <<>> \/ EpochOf(m2) = <<>>)

\* line 278 raises: a key cannot be computed, or the sort has to order two
\* messages whose keys cannot be compared
InnerSortRaises(metas) ==
    \/ \E j \in 1..Len(metas) : DecodeRaises(metas[j].conversationIndex)
    \/ \E i, j \in 1..Len(metas) : InnerKeyUnordered(metas[i], metas[j])

\* list.sort(key=inner_key): ascending and stable: an element comes after
\* those with a smaller key and after the earlier ones with an equal key
SortAscending(metas) ==
    LET n == Len(metas)
        Before(i, j) ==
            \/ InnerKeyLess(metas[i], metas[j])
            \/ (~InnerKeyLess(metas[j], metas[i]) /\ i < j)
        place == [j \in 1..n |-> Cardinality({i \in 1..n : Before(i, j)}) + 1]
    IN  [r \in 1..n |-> metas[CHOOSE j \in 1..n : place[j] = r]]

\* line 279
Reverse_Identity(s) == s

Reverse(s) == [j \in 1..Len(s) |-> s[Len(s) + 1 - j]]

\* grouping that keeps the values without a conversationId as a group
GroupByConversation_KeepsAll(message_metadata) ==
    LET kept == [j \in 1..Len(message_metadata) |-> message_metadata[j].v]
        MakesKey(j) == \A i \in 1..(j - 1) :
                          kept[i].conversationId # kept[j].conversationId
        firsts == SelectSeq([j \in 1..Len(kept) |-> j], MakesKey)
    IN  [g \in 1..Len(firsts) |->
            LET cid == kept[firsts[g]].conversationId
                InGroup(meta) == meta.conversationId = cid
            IN  [k |-> cid, v |-> SelectSeq(kept, InGroup)]]

\* lines 258-265: group the values by conversationId, in order of first
\* appearance; values without a conversationId are skipped
GroupByConversation(message_metadata) ==
    LET metas == [j \in 1..Len(message_metadata) |-> message_metadata[j].v]
        HasConversation(meta) == meta.conversationId # <<>>
        kept == SelectSeq(metas, HasConversation)
        \* setdefault makes the key at the first value that carries it
        MakesKey(j) == \A i \in 1..(j - 1) :
                          kept[i].conversationId # kept[j].conversationId
        firsts == SelectSeq([j \in 1..Len(kept) |-> j], MakesKey)
    IN  [g \in 1..Len(firsts) |->
            LET cid == kept[firsts[g]].conversationId
                InGroup(meta) == meta.conversationId = cid
            IN  [k |-> cid, v |-> SelectSeq(kept, InGroup)]]

\* lines 283-286
group_sort_key(item) == IF item.v = <<>> THEN <<0>> ELSE EpochOf(item.v[1])

\* line 289 raises: with two or more groups every key is compared with
\* another one, and None compares with nothing (TypeError)
GroupSortRaises(groups) ==
    /\ Len(groups) >= 2
    /\ \E g \in 1..Len(groups) : group_sort_key(groups[g]) = <<>>

\* line 289: sorted(..., key=group_sort_key, reverse=True): descending, and
\* items with equal keys keep their order
SortGroupsDescending(groups) ==
    LET n == Len(groups)
        Before(i, j) ==
            \/ /\ group_sort_key(groups[i]) # group_sort_key(groups[j])
               /\ group_sort_key(groups[i])[1] > group_sort_key(groups[j])[1]
            \/ (group_sort_key(groups[i]) = group_sort_key(groups[j]) /\ i < j)
        place == [j \in 1..n |-> Cardinality({i \in 1..n : Before(i, j)}) + 1]
    IN  [r \in 1..n |-> groups[CHOOSE j \in 1..n : place[j] = r]]

SelectNonEmpty(s) ==
    LET Truthy(x) == x # <<>>
    IN  SelectSeq(s, Truthy)

DictGet(d, k) == IF k \in DOMAIN d THEN d[k] ELSE <<>>

MessageIdsOf(metas) == SelectNonEmpty([j \in 1..Len(metas) |-> metas[j].id])

\* lines 297-314: one conversation of the result
ConversationEntry(cid, metas, conv_id_to_shortcode) ==
    LET msg == build_shortcode_map(MessageIdsOf(metas))
    IN  [conversationId |-> cid,
         conversationShortcode |-> DictGet(conv_id_to_shortcode, cid),
         messageShortcodes |-> msg.shortcode_to_id,
         messageShortcodeLength |-> msg.length,
         messages |->
            [j \in 1..Len(metas) |->
                IF metas[j].id # <<>>
                THEN [metas[j] EXCEPT !.shortcode = DictGet(msg.id_to_shortcode, metas[j].id)]
                ELSE metas[j]]]

\* lines 257-279: the groups, each latest first
SortedGroups(message_metadata) ==
    LET conversation_groups == GroupByConversation(message_metadata)
    IN  [g \in 1..Len(conversation_groups) |->
            [k |-> conversation_groups[g].k,
             v |-> Reverse(SortAscending(conversation_groups[g].v))]]

\* lines 257-289: the groups, each latest first, ordered among themselves
SortedConversations(message_metadata) ==
    SortGroupsDescending(SortedGroups(message_metadata))

\* lines 278 or 289 raise TypeError or binascii.Error
SortingRaises(message_metadata) ==
    LET conversation_groups == GroupByConversation(message_metadata)
    IN  \/ \E g \in 1..Len(conversation_groups) :
              InnerSortRaises(conversation_groups[g].v)
        \/ GroupSortRaises(SortedGroups(message_metadata))

ConversationIdsOf(sorted_conversations) ==
    SelectNonEmpty([g \in 1..Len(sorted_conversations) |-> sorted_conversations[g].k])

\* a sort raises, or a build_shortcode_map call of lines 292 or 299 raises
\* ValueError
OrganizeRaises(message_metadata) ==
    \/ SortingRaises(message_metadata)
    \/ LET sorted_conversations == SortedConversations(message_metadata)
       IN  \/ build_shortcode_map(ConversationIdsOf(sorted_conversations)).raised
           \/ \E g \in 1..Len(sorted_conversations) :
                 build_shortcode_map(MessageIdsOf(sorted_conversations[g].v)).raised

\* threading over the folder's metadata together with that of another folder
\* whose metadata artifact is on disk
OrganizePayload_Merged(folder_id, folder_shortcode, message_metadata) ==
    LET others == {name \in DOMAIN metaFiles :
                      /\ metaFiles[name].ok
                      /\ metaFiles[name].data # <<>>
                      /\ metaFiles[name].data # message_metadata}
        merged == IF others = {} THEN message_metadata
                  ELSE message_metadata
                       \o metaFiles[CHOOSE name \in others : TRUE].data
        sorted_conversations == SortedConversations(merged)
        conv == build_shortcode_map(ConversationIdsOf(sorted_conversations))
    IN  [folderId |-> folder_id,
         folderShortcode |-> folder_shortcode,
         conversationShortcodes |-> conv.shortcode_to_id,
         conversationShortcodeLength |-> conv.length,
         conversations |->
            [g \in 1..Len(sorted_conversations) |->
                ConversationEntry(sorted_conversations[g].k,
                                  sorted_conversations[g].v, conv.id_to_shortcode)]]

\* lines 291-322: output_payload
OrganizePayload(folder_id, folder_shortcode, message_metadata) ==
    LET sorted_conversations == SortedConversations(message_metadata)
        conv == build_shortcode_map(ConversationIdsOf(sorted_conversations))
    IN  [folderId |-> folder_id,
         folderShortcode |-> folder_shortcode,
         conversationShortcodes |-> conv.shortcode_to_id,
         conversationShortcodeLength |-> conv.length,
         conversations |->
            [g \in 1..Len(sorted_conversations) |->
                ConversationEntry(sorted_conversations[g].k,
                                  sorted_conversations[g].v, conv.id_to_shortcode)]]

NoResult ==
    [raised |-> FALSE, id_to_shortcode |-> EmptyDict,
     shortcode_to_id |-> EmptyDict, length |-> 0]

(***************************************************************************)
(* call_route.py                                                           *)
(***************************************************************************)
\* call_route, lines 85-138.  Without a token it returns None and sends
\* nothing (lines 85-87).  With one it sends the request; requests.request
\* may raise (a timeout, a refused connection: "raise"), a non-2xx status
\* gives None ("none"), a 2xx gives the summary, of one of the kinds okKinds.
CallKinds(okKinds) == IF jwt THEN {"raise", "none"} \cup okKinds ELSE {"none"}

Request(route, folderId, nextLink, ids) ==
    [route |-> route, folderId |-> folderId, nextLink |-> nextLink, ids |-> ids]

Sent(request) == IF jwt THEN Append(calls, request) ELSE calls

(***************************************************************************)
(* cli_routes/outlook/index.py: impl_outlook_index, step by step.  A step  *)
(* is one request, or one open or one write of a file; a KeyboardInterrupt *)
(* can arrive between any two steps.                                       *)
(***************************************************************************)
NoLocals ==
    [folder_data |-> <<>>, folders |-> <<>>, i |-> 0, message_ids |-> <<>>,
     next_link |-> <<>>, message_ids_chunked |-> <<>>, chunk_index |-> 0,
     all_message_metadata |-> <<>>, output_payload |-> <<>>]

NoStep == [phase |-> "", folder |-> <<>>]

NoResume == [active |-> FALSE, rerun |-> FALSE, name |-> <<>>, file |-> NoFile]

\* lines 66-74: (folder_name, node) in pre-order; the name is the path of names
RECURSIVE FolderList(_, _)
FolderList(folder_forest, prior) ==
    IF folder_forest = <<>> THEN <<>>
    ELSE LET node == Head(folder_forest)
         IN  <<[folder_name |-> Append(prior, node.name), node |-> node]>>
             \o FolderList(node.children, Append(prior, node.name))
             \o FolderList(Tail(folder_forest), prior)

\* lines 45-47
FolderIdsOf(folder_data) ==
    LET nodes == collect_folder_nodes(folder_data)
    IN  SelectNonEmpty([k \in 1..Len(nodes) |-> nodes[k].id])

CurrentNode == local.folders[local.i].node

HelperLocalsCleared ==
    [local EXCEPT !.message_ids = <<>>, !.next_link = <<>>,
                  !.message_ids_chunked = <<>>, !.chunk_index = 0,
                  !.all_message_metadata = <<>>, !.output_payload = <<>>]

NextPhase_SkipsSanity(phase) ==
    CASE phase = "ids" -> "meta"
      [] phase = "sanity" -> "meta"
      [] phase = "meta" -> "conv"

NextPhase(phase) ==
    CASE phase = "ids" -> "sanity"
      [] phase = "sanity" -> "meta"
      [] phase = "meta" -> "conv"

\* the command returns (or an exception leaves it)
Finish(res, phase, folder) ==
    /\ pc' = "done"
    /\ result' = res
    /\ failedStep' = [phase |-> phase, folder |-> folder]
    /\ local' = NoLocals

\* lines 87-89, 98-100, 111-117, 125-132: a helper returned False: return -1
StepFailed_Continues(phase, folder) ==
    /\ failedStep' = [phase |-> phase, folder |-> folder]
    /\ result' = "fail"
    /\ IF local.i < Len(local.folders)
       THEN pc' = phase /\ local' = [HelperLocalsCleared EXCEPT !.i = local.i + 1]
       ELSE pc' = "done" /\ local' = NoLocals

StepFailed(phase, folder) == Finish("fail", phase, folder)

\* an exception other than KeyboardInterrupt is not caught (lines 136-138)
StepRaised(phase, folder) == Finish("crash", phase, folder)

\* a helper returned True: the loop goes on, then the next loop, then return 0
StepPassed_EndsEarly(phase) ==
    IF local.i < Len(local.folders)
    THEN /\ pc' = phase
         /\ local' = [HelperLocalsCleared EXCEPT !.i = local.i + 1]
         /\ UNCHANGED <<result, failedStep>>
    ELSE IF phase \in {"meta", "conv"}
    THEN Finish("ok", "", <<>>)
    ELSE /\ pc' = NextPhase(phase)
         /\ local' = [HelperLocalsCleared EXCEPT !.i = 1]
         /\ UNCHANGED <<result, failedStep>>

StepPassed(phase) ==
    IF local.i < Len(local.folders)
    THEN /\ pc' = phase
         /\ local' = [HelperLocalsCleared EXCEPT !.i = local.i + 1]
         /\ UNCHANGED <<result, failedStep>>
    ELSE IF phase = "conv"
    THEN Finish("ok", "", <<>>)
    ELSE /\ pc' = NextPhase(phase)
         /\ local' = [HelperLocalsCleared EXCEPT !.i = 1]
         /\ UNCHANGED <<result, failedStep>>

Goto(label, locals) ==
    /\ pc' = label
    /\ local' = locals
    /\ UNCHANGED <<result, failedStep>>

Opened(dirName, name) == Append(writes, [dir |-> dirName, name |-> name, what |-> "open"])

Written(dirName, name) == Append(writes, [dir |-> dirName, name |-> name, what |-> "write"])

\* every folder of the checkpointed forest has its three artifacts, complete
FolderNames ==
    LET nodes == collect_folder_nodes(foldersFile.data)
    IN  {nodes[k].shortcode : k \in 1..Len(nodes)}

FullyIndexed ==
    /\ foldersFile.exists /\ foldersFile.ok
    /\ \A name \in FolderNames :
          /\ FileAt(idsFiles, name).ok
          /\ FileAt(metaFiles, name).ok
          /\ FileAt(convFiles, name).ok

\* lines 16, 23: the command starts, reset = False
StartIndex ==
    /\ pc \in {"idle", "done"}
    /\ pc' = "folders"
    /\ result' = "none"
    /\ local' = NoLocals
    /\ failedStep' = NoStep
    /\ calls' = <<>>
    /\ writes' = <<>>
    /\ startedFull' = FullyIndexed
    \* the first run after the deletion is the rerun; the next one is not
    /\ resume' = IF resume.active /\ ~resume.rerun
                 THEN [resume EXCEPT !.rerun = TRUE]
                 ELSE NoResume
    /\ UNCHANGED <<remoteSizes, hashPos, jwt, fileVars, listFailed, sanityLog, pureVars>>

\* lines 45-48, with folder_data in hand
GotFolders(folder_data) ==
    LET map == build_shortcode_map(FolderIdsOf(folder_data))
    IN  IF map.raised
        THEN StepRaised("folders", <<>>)
        ELSE Goto("sc_open",
                  [NoLocals EXCEPT !.folder_data =
                      apply_folder_shortcodes(folder_data, map.id_to_shortcode)])

\* lines 25-48: the forest, from the remote or from the checkpoint
FetchFolders ==
    /\ pc = "folders"
    /\ IF ~foldersFile.exists
       THEN \E kind \in CallKinds({"nodata", "forest"}) :
               /\ calls' = Sent(Request("get-folders", <<>>, <<>>, <<>>))
               /\ CASE kind = "raise" -> StepRaised("folders", <<>>)
                    [] kind = "none" -> StepFailed("folders", <<>>)
                    \* lines 32-33: data None becomes []
                    [] kind = "nodata" -> GotFolders(<<>>)
                    [] kind = "forest" -> GotFolders(RemoteForest)
       ELSE /\ calls' = calls
            /\ IF ~foldersFile.ok
               THEN StepRaised("folders", <<>>)          \* json.load, line 36
               ELSE GotFolders(foldersFile.data)
    /\ UNCHANGED <<remoteSizes, hashPos, jwt, fileVars, writes, startedFull,
                   resume, listFailed, sanityLog, pureVars>>

\* shortcodes.py lines 83-90, open(path, "w")
OpenShortcodesFile ==
    /\ pc = "sc_open"
    /\ shortcodesFile' = OpenedFile
    /\ writes' = Opened("shortcodes", <<>>)
    /\ Goto("sc_write", local)
    /\ UNCHANGED <<remoteSizes, hashPos, jwt, foldersFile, idsFiles, metaFiles,
                   convFiles, calls, startedFull, resume, listFailed, sanityLog, pureVars>>

\* shortcodes.py line 90, json.dump
WriteShortcodesFile ==
    /\ pc = "sc_write"
    /\ shortcodesFile' =
          WrittenFile(<<ShortcodePayload(
              build_shortcode_map(FolderIdsOf(local.folder_data)))>>)
    /\ writes' = Written("shortcodes", <<>>)
    /\ Goto("ff_open", local)
    /\ UNCHANGED <<remoteSizes, hashPos, jwt, foldersFile, idsFiles, metaFiles,
                   convFiles, calls, startedFull, resume, listFailed, sanityLog, pureVars>>

\* line 56
OpenFoldersFile ==
    /\ pc = "ff_open"
    /\ foldersFile' = OpenedFile
    /\ writes' = Opened("folders", <<>>)
    /\ Goto("ff_write", local)
    /\ UNCHANGED <<remoteSizes, hashPos, jwt, shortcodesFile, idsFiles, metaFiles,
                   convFiles, calls, startedFull, resume, listFailed, sanityLog, pureVars>>

\* lines 57-80: the forest is written, the folder list is built, and the
\* first loop starts (with no folder every loop is empty: return 0)
WriteFoldersFile ==
    /\ pc = "ff_write"
    /\ foldersFile' = WrittenFile(local.folder_data)
    /\ writes' = Written("folders", <<>>)
    /\ LET folders == FolderList(local.folder_data, <<>>)
       IN  IF folders = <<>>
           THEN Finish("ok", "", <<>>)
           ELSE Goto("ids", [local EXCEPT !.folders = folders, !.i = 1])
    /\ UNCHANGED <<remoteSizes, hashPos, jwt, shortcodesFile, idsFiles, metaFiles,
                   convFiles, calls, startedFull, resume, listFailed, sanityLog, pureVars>>

\* -------------------------------------------------------------------------
\* index_folder_get_top_level_ids
\* -------------------------------------------------------------------------
\* lines 55-67 and 78-90: what the helper does with the response to a page
\* request sent with the cursor nextLink
ListResponse_DropsCursor(kind, node, nextLink) ==
    CASE kind = "raise" -> StepRaised("ids", node.id)
      [] kind \in {"none", "nondict"} -> StepFailed("ids", node.id)
      [] kind = "nokey" -> StepRaised("ids", node.id)
      [] kind = "page" ->
            LET page == RemotePage(node.id, nextLink)
            IN  Goto("ids_page",
                     [local EXCEPT !.message_ids = local.message_ids \o page.messageIds,
                                   !.next_link = <<>>])

ListResponse(kind, node, nextLink) ==
    CASE kind = "raise" -> StepRaised("ids", node.id)
      [] kind \in {"none", "nondict"} -> StepFailed("ids", node.id)
      [] kind = "nokey" -> StepRaised("ids", node.id)     \* KeyError, line 65/88
      [] kind = "page" ->
            LET page == RemotePage(node.id, nextLink)
            IN  Goto("ids_page",
                     [local EXCEPT !.message_ids = local.message_ids \o page.messageIds,
                                   !.next_link = page.nextLink])

ListKinds == {"nondict", "nokey", "page"}

\* lines 38-67: the checkpoint test and the first page
IdsBegin ==
    /\ pc = "ids"
    /\ LET node == CurrentNode
           dir == _resolve_index_file(idsFiles, node.id, node.shortcode)
       IN  IF node.id = <<>> \/ node.shortcode = <<>>
           THEN /\ StepFailed("ids", node.id)
                /\ UNCHANGED <<idsFiles, calls>>
           ELSE /\ idsFiles' = dir
                /\ IF IdsCheckpointed(dir, node.shortcode)
                   THEN /\ StepPassed("ids")
                        /\ calls' = calls
                   ELSE \E kind \in CallKinds(ListKinds) :
                           /\ calls' = Sent(Request("get-id-list", node.id,
                                                    FirstPageCursor(node), <<>>))
                           /\ ListResponse(kind, node, FirstPageCursor(node))
    /\ UNCHANGED <<remoteSizes, hashPos, jwt, foldersFile, shortcodesFile, metaFiles,
                   convFiles, writes, startedFull, resume, listFailed, sanityLog, pureVars>>

\* lines 68-90: one more page, while the last one carried a cursor
IdsNextPage ==
    /\ pc = "ids_page"
    /\ local.next_link # <<>>
    /\ LET node == CurrentNode
       IN  \E kind \in CallKinds(ListKinds) :
              /\ calls' = Sent(Request("get-id-list", node.id, local.next_link, <<>>))
              /\ ListResponse(kind, node, local.next_link)
              /\ listFailed' = IF kind = "page" THEN listFailed ELSE node.id
    /\ UNCHANGED <<remoteSizes, hashPos, jwt, fileVars, writes, startedFull,
                   resume, sanityLog, pureVars>>

\* lines 91-93: open(target_path, "w")
IdsOpen ==
    /\ pc = "ids_page"
    /\ local.next_link = <<>>
    /\ idsFiles' = DictPut(idsFiles, CurrentNode.shortcode, OpenedFile)
    /\ writes' = Opened("ids", CurrentNode.shortcode)
    /\ Goto("ids_write", local)
    /\ UNCHANGED <<remoteSizes, hashPos, jwt, foldersFile, shortcodesFile, metaFiles,
                   convFiles, calls, startedFull, resume, listFailed, sanityLog, pureVars>>

\* lines 94-101: f.write(json.dumps(message_ids)); return True
IdsWrite ==
    /\ pc = "ids_write"
    /\ idsFiles' = DictPut(idsFiles, CurrentNode.shortcode, WrittenFile(local.message_ids))
    /\ writes' = Written("ids", CurrentNode.shortcode)
    /\ listFailed' = IF listFailed = CurrentNode.id THEN <<>> ELSE listFailed
    /\ StepPassed("ids")
    /\ UNCHANGED <<remoteSizes, hashPos, jwt, foldersFile, shortcodesFile, metaFiles,
                   convFiles, calls, startedFull, resume, sanityLog, pureVars>>

\* -------------------------------------------------------------------------
\* index_folder_sanity_check
\* -------------------------------------------------------------------------
\* lines 104-173 as a function of the node, the id-list directory and the
\* response call_route gives: the verdict, and whether call_route was called
index_folder_sanity_check(node, dir, resp) ==
    IF node.id = <<>> \/ node.shortcode = <<>>
    THEN [verdict |-> "fail", called |-> FALSE]
    ELSE IF ~IsFile(_resolve_index_file(dir, node.id, node.shortcode), node.shortcode)
    THEN [verdict |-> "fail", called |-> FALSE]
    ELSE [verdict |->
             SanityVerdict(
                 _resolve_index_file(dir, node.id, node.shortcode)[node.shortcode],
                 resp),
          called |-> TRUE]

\* the totals the remote reports for a folder indexed with n ids: the mailbox
\* may have changed since, by little or by much
ReportedTotals(n) == {n, n + INDEX_SANITY_CHECK_MAX_DISCREPANCY + 1}

SanityResponses(n) ==
    {[kind |-> k, total |-> 0] : k \in CallKinds({"nondict"})}
    \cup (IF jwt
          THEN {[kind |-> k, total |-> t] : k \in {"int", "float"}, t \in ReportedTotals(n)}
          ELSE {})

\* no count on record
NoCount == [folder |-> <<>>, total |-> 0]

NoSanityLog == [seen |-> NoCount, failed |-> NoCount, again |-> FALSE]

\* the record of a check of node that was answered resp with verdict: the
\* count the remote reported, the failure that stands for the folder, and
\* whether the folder had failed on this count before
SanityLogged(node, resp, verdict) ==
    IF resp.kind \in {"int", "float"}
    THEN [seen |-> [folder |-> node.id, total |-> resp.total],
          failed |-> IF verdict = "fail"
                     THEN [folder |-> node.id, total |-> resp.total]
                     ELSE IF sanityLog.failed.folder = node.id
                     THEN NoCount
                     ELSE sanityLog.failed,
          again |-> sanityLog.failed = [folder |-> node.id, total |-> resp.total]]
    ELSE [sanityLog EXCEPT !.seen = NoCount, !.again = FALSE]

SanityCheck ==
    /\ pc = "sanity"
    /\ LET node == CurrentNode
           dir == IF node.id = <<>> \/ node.shortcode = <<>> THEN idsFiles
                  ELSE _resolve_index_file(idsFiles, node.id, node.shortcode)
           n == Len(FileAt(dir, node.shortcode).data)
       IN  /\ idsFiles' = dir
           /\ \E resp \in SanityResponses(n) :
                 LET r == index_folder_sanity_check(node, idsFiles, resp)
                 IN  /\ calls' = IF r.called
                                 THEN Sent(Request("get-folder-metadata", node.id, <<>>, <<>>))
                                 ELSE calls
                     /\ sanityLog' = IF r.called
                                     THEN SanityLogged(node, resp, r.verdict)
                                     ELSE sanityLog
                     /\ CASE r.verdict = "pass" -> StepPassed("sanity")
                          [] r.verdict = "fail" -> StepFailed("sanity", node.id)
                          [] r.verdict = "crash" -> StepRaised("sanity", node.id)
    /\ UNCHANGED <<remoteSizes, hashPos, jwt, foldersFile, shortcodesFile, metaFiles,
                   convFiles, writes, startedFull, resume, listFailed, pureVars>>

\* -------------------------------------------------------------------------
\* index_folder_get_top_level_metadata
\* -------------------------------------------------------------------------
\* lines 176-201: the checkpoint test, the id list, its chunks
MetaBegin ==
    /\ pc = "meta"
    /\ LET node == CurrentNode
           mdir == _resolve_index_file(metaFiles, node.id, node.shortcode)
           idir == _resolve_index_file(idsFiles, node.id, node.shortcode)
       IN  IF node.id = <<>> \/ node.shortcode = <<>>
           THEN /\ StepFailed("meta", node.id)
                /\ UNCHANGED <<idsFiles, metaFiles>>
           ELSE /\ metaFiles' = mdir
                /\ IF MetaCheckpointed(mdir, node.shortcode)
                   THEN /\ StepPassed("meta")
                        /\ idsFiles' = idsFiles
                   ELSE /\ idsFiles' = idir
                        /\ IF ~IsFile(idir, node.shortcode)
                           THEN StepFailed("meta", node.id)          \* lines 188-193
                           ELSE IF ~idir[node.shortcode].ok
                           THEN StepRaised("meta", node.id)          \* json.load, line 195
                           ELSE Goto("meta_chunk",
                                     [local EXCEPT
                                        !.message_ids = idir[node.shortcode].data,
                                        !.message_ids_chunked =
                                            ChunkIds(idir[node.shortcode].data),
                                        !.chunk_index = 1,
                                        !.all_message_metadata = <<>>])
    /\ UNCHANGED <<remoteSizes, hashPos, jwt, foldersFile, shortcodesFile, convFiles,
                   calls, writes, startedFull, resume, listFailed, sanityLog, pureVars>>

HydrateKinds == {"nondict", "nokey", "nolist", "messages"}

\* lines 203-220: one chunk
MetaChunk ==
    /\ pc = "meta_chunk"
    /\ local.chunk_index <= Len(local.message_ids_chunked)
    /\ LET node == CurrentNode
           chunk_ids == local.message_ids_chunked[local.chunk_index]
       IN  \E kind \in CallKinds(HydrateKinds) :
              /\ calls' = Sent(Request("hydrate-message-metadata", <<>>, <<>>, chunk_ids))
              /\ CASE kind = "raise" -> StepRaised("meta", node.id)
                   [] kind \in {"none", "nondict", "nolist"} -> StepFailed("meta", node.id)
                   [] kind = "nokey" -> StepRaised("meta", node.id)   \* KeyError, line 215
                   [] kind = "messages" ->
                         Goto("meta_chunk",
                              [local EXCEPT
                                 !.all_message_metadata =
                                     MergeChunk(local.all_message_metadata, chunk_ids,
                                                RemoteHydrate(chunk_ids)),
                                 !.chunk_index = local.chunk_index + 1])
    /\ UNCHANGED <<remoteSizes, hashPos, jwt, fileVars, writes, startedFull, resume,
                   listFailed, sanityLog, pureVars>>

\* line 222: open(metadata_path, "w"), after the last chunk
MetaOpen ==
    /\ pc = "meta_chunk"
    /\ local.chunk_index > Len(local.message_ids_chunked)
    /\ metaFiles' = DictPut(metaFiles, CurrentNode.shortcode, OpenedFile)
    /\ writes' = Opened("meta", CurrentNode.shortcode)
    /\ Goto("meta_write", local)
    /\ UNCHANGED <<remoteSizes, hashPos, jwt, foldersFile, shortcodesFile, idsFiles,
                   convFiles, calls, startedFull, resume, listFailed, sanityLog, pureVars>>

\* lines 223-226
MetaWrite ==
    /\ pc = "meta_write"
    /\ metaFiles' = DictPut(metaFiles, CurrentNode.shortcode,
                            WrittenFile(local.all_message_metadata))
    /\ writes' = Written("meta", CurrentNode.shortcode)
    /\ StepPassed("meta")
    /\ UNCHANGED <<remoteSizes, hashPos, jwt, foldersFile, shortcodesFile, idsFiles,
                   convFiles, calls, startedFull, resume, listFailed, sanityLog, pureVars>>

\* -------------------------------------------------------------------------
\* index_folder_organize_into_conversations
\* -------------------------------------------------------------------------
\* lines 230-324: the metadata is loaded, then the checkpoint is tested, then
\* the payload is computed and the output file opened
Organize ==
    /\ pc = "conv"
    /\ LET node == CurrentNode
           mdir == _resolve_index_file(metaFiles, node.id, node.shortcode)
       IN  IF node.id = <<>> \/ node.shortcode = <<>>
           THEN /\ StepFailed("conv", node.id)
                /\ UNCHANGED <<metaFiles, convFiles, writes>>
           ELSE /\ metaFiles' = mdir
                /\ IF ~IsFile(mdir, node.shortcode)
                   THEN /\ StepFailed("conv", node.id)               \* lines 239-244
                        /\ UNCHANGED <<convFiles, writes>>
                   ELSE IF ~mdir[node.shortcode].ok
                   THEN /\ StepRaised("conv", node.id)               \* json.load, line 247
                        /\ UNCHANGED <<convFiles, writes>>
                   ELSE IF ConvCheckpointed(convFiles, node.shortcode)
                   THEN /\ StepPassed("conv")                        \* lines 254-255
                        /\ UNCHANGED <<convFiles, writes>>
                   ELSE IF OrganizeRaises(mdir[node.shortcode].data)
                   THEN /\ StepRaised("conv", node.id)
                        /\ UNCHANGED <<convFiles, writes>>
                   ELSE /\ convFiles' = DictPut(convFiles, node.shortcode, OpenedFile)
                        /\ writes' = Opened("conv", node.shortcode)
                        /\ Goto("conv_write",
                                [local EXCEPT !.output_payload =
                                    <<OrganizePayload(node.id, node.shortcode,
                                                      mdir[node.shortcode].data)>>])
    /\ UNCHANGED <<remoteSizes, hashPos, jwt, foldersFile, shortcodesFile, idsFiles,
                   calls, startedFull, resume, listFailed, sanityLog, pureVars>>

\* lines 325-328: json.dump(output_payload, f); return True
ConvWrite ==
    /\ pc = "conv_write"
    /\ convFiles' = DictPut(convFiles, CurrentNode.shortcode,
                            WrittenFile(local.output_payload))
    /\ writes' = Written("conv", CurrentNode.shortcode)
    /\ StepPassed("conv")
    /\ UNCHANGED <<remoteSizes, hashPos, jwt, foldersFile, shortcodesFile, idsFiles,
                   metaFiles, calls, startedFull, resume, listFailed, sanityLog, pureVars>>

\* index.py lines 136-138: KeyboardInterrupt, wherever the run is: return -1.
\* A file that was opened and not yet written stays as open() left it.
Interrupt ==
    /\ pc \notin {"idle", "done"}
    /\ Finish("fail", "interrupt", <<>>)
    /\ UNCHANGED <<remoteSizes, hashPos, jwt, fileVars, histVars, pureVars>>

\* index.py lines 17-22: reset = True
ResetIndex ==
    /\ pc \in {"idle", "done"}
    /\ foldersFile' = NoFile
    /\ shortcodesFile' = NoFile
    /\ idsFiles' = EmptyDict
    /\ metaFiles' = EmptyDict
    /\ convFiles' = EmptyDict
    /\ Finish("ok", "", <<>>)
    /\ calls' = <<>>
    /\ writes' = <<>>
    /\ startedFull' = FALSE
    /\ resume' = NoResume
    /\ listFailed' = <<>>
    /\ sanityLog' = NoSanityLog
    /\ UNCHANGED <<remoteSizes, hashPos, jwt, pureVars>>

RemoveKey(d, k) == [j \in (DOMAIN d) \ {k} |-> d[j]]

\* between two commands nothing of the last run is left but the files
Forgotten ==
    /\ pc' = "idle"
    /\ result' = "none"
    /\ local' = NoLocals
    /\ failedStep' = NoStep
    /\ calls' = <<>>
    /\ writes' = <<>>
    /\ startedFull' = FALSE

StillToRerun == IF resume.rerun THEN NoResume ELSE resume

\* every metadata artifact has an entry for each id of the folder's id list
MetadataCurrent ==
    \A name \in FolderNames :
        Len(FileAt(metaFiles, name).data) = Len(FileAt(idsFiles, name).data)

\* the user deletes one folder's conversation artifact of a fully indexed
\* directory, between two commands
DeleteConversationArtifact ==
    /\ pc \in {"idle", "done"}
    /\ FullyIndexed
    /\ MetadataCurrent
    /\ \E name \in DOMAIN convFiles :
          /\ convFiles' = RemoveKey(convFiles, name)
          /\ resume' = [active |-> TRUE, rerun |-> FALSE, name |-> name,
                        file |-> convFiles[name]]
    /\ Forgotten
    /\ UNCHANGED <<remoteSizes, hashPos, jwt, foldersFile, shortcodesFile, idsFiles,
                   metaFiles, listFailed, sanityLog, pureVars>>

\* upstream metadata changes after a folder was threaded: between two
\* commands the folder's metadata artifact loses its last entry
AlterMetadataArtifact ==
    /\ pc \in {"idle", "done"}
    /\ FullyIndexed
    /\ MetadataCurrent
    /\ \E name \in DOMAIN metaFiles :
          /\ metaFiles[name].data # <<>>
          /\ metaFiles' =
                DictPut(metaFiles, name,
                        WrittenFile(SubSeq(metaFiles[name].data, 1,
                                           Len(metaFiles[name].data) - 1)))
    /\ Forgotten
    /\ resume' = NoResume
    /\ UNCHANGED <<remoteSizes, hashPos, jwt, foldersFile, shortcodesFile, idsFiles,
                   convFiles, listFailed, sanityLog, pureVars>>

\* login.py lines 86-88: login stores the token
Login ==
    /\ pc \in {"idle", "done"}
    /\ ~jwt
    /\ jwt' = TRUE
    /\ Forgotten
    /\ resume' = StillToRerun
    /\ UNCHANGED <<remoteSizes, hashPos, fileVars, listFailed, sanityLog, pureVars>>

\* logout.py lines 56-58: logout removes the token file
Logout ==
    /\ pc \in {"idle", "done"}
    /\ jwt
    /\ jwt' = FALSE
    /\ Forgotten
    /\ resume' = StillToRerun
    /\ UNCHANGED <<remoteSizes, hashPos, fileVars, listFailed, sanityLog, pureVars>>

(***************************************************************************)
(* Spec: index runs, one after another, over one working directory.        *)
(***************************************************************************)
SizesOf(inbox, archive, y2023) ==
    (InboxId :> inbox) @@ (ArchiveId :> archive) @@ (Y2023Id :> y2023)

\* mailboxes: folders that are empty, hold one message, exactly one chunk, one
\* chunk and one message, and several chunks with a last partial one
RemoteScenarios ==
    { SizesOf(MaxFolderSize, 0, INDEX_GET_METADATA_CHUNK_SIZE),
      SizesOf(INDEX_GET_METADATA_CHUNK_SIZE + 1, 1, 0),
      SizesOf(1, MaxFolderSize, 2 * INDEX_GET_METADATA_CHUNK_SIZE) }

\* the digests of the model's ids differ within the first 8 digits, or only
\* from digit 9 on
MainHashPositions == {5, 6}

SnIdle ==
    /\ snPc = "off"
    /\ snDir = EmptyDict
    /\ snResp = [kind |-> "none", total |-> 0]
    /\ snVerdict = "none"

ScIdle ==
    /\ scPc = "off"
    /\ scValues1 = <<>>
    /\ scValues2 = <<>>
    /\ scResult1 = NoResult
    /\ scResult2 = NoResult

ThIdle ==
    /\ thPc = "off"
    /\ thMeta = <<>>
    /\ thOut = [raised |-> FALSE, conversations |-> <<>>]

NmIdle ==
    /\ nmPc = "off"
    /\ nmInput = <<>>
    /\ nmOnce = <<>>
    /\ nmTwice = <<>>
    /\ nmLimit = 0
    /\ nmTrunc = <<>>

ArIdle ==
    /\ arPc = "off"
    /\ arBox = <<>>
    /\ arDir = <<>>
    /\ arRejected = FALSE
    /\ arRun = <<>>
    /\ arCalls = <<>>
    /\ arOut = {}

OpIdle ==
    /\ opPc = "off"
    /\ opTotal = 0
    /\ opPrefixes = <<>>

FpIdle ==
    /\ fpPc = "off"
    /\ fpForest = <<>>
    /\ fpDirs = <<>>

HyIdle ==
    /\ hyPc = "off"
    /\ hyIds = <<>>
    /\ hyKinds = <<>>
    /\ hyOut = <<>>

RtIdle ==
    /\ rtPc = "off"
    /\ rtMeta = NoFile
    /\ rtConv = NoFile
    /\ rtOut = <<>>

BdIdle ==
    /\ bdPc = "off"
    /\ bdMeta = <<>>
    /\ bdConv = NoFile
    /\ bdFirst = <<>>
    /\ bdCache = EmptyDict
    /\ bdRun = <<>>
    /\ bdOut = <<>>

TvIdle ==
    /\ tvPc = "off"
    /\ tvForest = <<>>
    /\ tvSeen = <<>>
    /\ tvStages = <<>>

SpIdle ==
    /\ spPc = "off"
    /\ spJwt = FALSE
    /\ spResp = "none"
    /\ spPending = "none"
    /\ spStop = FALSE
    /\ spThread = "none"
    /\ spFrame = 0
    /\ spValue = "none"
    /\ spCalls = 0

RsIdle ==
    /\ rsTree = {}
    /\ rsBefore = {}
    /\ rsOp = "none"
    /\ rsResult = 0
    /\ rsCalls = 0

SdIdle ==
    /\ sdPc = "off"
    /\ sdArgs = <<>>
    /\ sdJwt = FALSE
    /\ sdFind = <<>>
    /\ sdMatches = <<>>
    /\ sdAnswer = "none"
    /\ sdCalls = <<>>
    /\ sdResult = "none"

\* every drawn-input operation but the named one is idle
PureIdle(active) ==
    /\ IF active = "sn" THEN TRUE ELSE SnIdle
    /\ IF active = "sc" THEN TRUE ELSE ScIdle
    /\ IF active = "th" THEN TRUE ELSE ThIdle
    /\ IF active = "nm" THEN TRUE ELSE NmIdle
    /\ IF active = "ar" THEN TRUE ELSE ArIdle
    /\ IF active = "op" THEN TRUE ELSE OpIdle
    /\ IF active = "fp" THEN TRUE ELSE FpIdle
    /\ IF active = "hy" THEN TRUE ELSE HyIdle
    /\ IF active = "rt" THEN TRUE ELSE RtIdle
    /\ IF active = "bd" THEN TRUE ELSE BdIdle
    /\ IF active = "tv" THEN TRUE ELSE TvIdle
    /\ IF active = "sp" THEN TRUE ELSE SpIdle
    /\ IF active = "rs" THEN TRUE ELSE RsIdle
    /\ IF active = "sd" THEN TRUE ELSE SdIdle

IndexIdle ==
    /\ jwt = TRUE
    /\ foldersFile = NoFile
    /\ shortcodesFile = NoFile
    /\ idsFiles = EmptyDict
    /\ metaFiles = EmptyDict
    /\ convFiles = EmptyDict
    /\ pc = "idle"
    /\ result = "none"
    /\ local = NoLocals
    /\ failedStep = NoStep
    /\ calls = <<>>
    /\ writes = <<>>
    /\ startedFull = FALSE
    /\ resume = NoResume
    /\ listFailed = <<>>
    /\ sanityLog = NoSanityLog

Init ==
    /\ hashPos \in MainHashPositions
    /\ remoteSizes \in RemoteScenarios
    /\ IndexIdle
    /\ PureIdle("none")

Next ==
    \/ StartIndex
    \/ FetchFolders
    \/ OpenShortcodesFile
    \/ WriteShortcodesFile
    \/ OpenFoldersFile
    \/ WriteFoldersFile
    \/ IdsBegin
    \/ IdsNextPage
    \/ IdsOpen
    \/ IdsWrite
    \/ SanityCheck
    \/ MetaBegin
    \/ MetaChunk
    \/ MetaOpen
    \/ MetaWrite
    \/ Organize
    \/ ConvWrite
    \/ Interrupt
    \/ ResetIndex
    \/ DeleteConversationArtifact
    \/ AlterMetadataArtifact
    \/ Login
    \/ Logout

Spec == Init /\ [][Next]_vars

(***************************************************************************)
(* SpecSanity: index_folder_sanity_check on drawn id lists and responses.  *)
(***************************************************************************)
SanityBase == 1000

SnNode ==
    [id |-> InboxId, name |-> "Inbox",
     shortcode |-> ShortcodeOf(_hash_id(InboxId), 8), children |-> <<>>]

SnIdList(n) == [k \in 1..n |-> <<1, k>>]

\* n ids of which the last repeats the first
SnIdListWithRepeat(n) == Append(SnIdList(n - 1), <<1, 1>>)

SnCounts ==
    {0, 1, 2, SanityBase - 200, SanityBase - 50, SanityBase, SanityBase + 101}

SnTotals(n) ==
    {t \in {0, n - 101, n - 100, n - 1, n, n + 1, n + 100, n + 101, SanityBase} : t >= 0}

SnDirs ==
    {EmptyDict}
    \cup {DictPut(EmptyDict, SnNode.shortcode, OpenedFile)}
    \cup {DictPut(EmptyDict, SnNode.shortcode, WrittenFile(SnIdList(n))) : n \in SnCounts}
    \cup {DictPut(EmptyDict, SnNode.shortcode, WrittenFile(SnIdListWithRepeat(n))) :
             n \in SnCounts \ {0, 1}}

SnResponses(n) ==
    {[kind |-> k, total |-> 0] : k \in {"raise", "none", "nondict"}}
    \cup {[kind |-> k, total |-> t] : k \in {"int", "float"}, t \in SnTotals(n)}

SnInit ==
    /\ hashPos = 5
    /\ remoteSizes = [f \in RemoteFolderIds |-> 0]
    /\ IndexIdle
    /\ PureIdle("sn")
    /\ snPc = "input"
    /\ snDir \in SnDirs
    /\ snResp \in SnResponses(Len(FileAt(snDir, SnNode.shortcode).data))
    /\ snVerdict = "none"

SnCheck ==
    /\ snPc = "input"
    /\ snVerdict' = index_folder_sanity_check(SnNode, snDir, snResp).verdict
    /\ snDir' = _resolve_index_file(snDir, SnNode.id, SnNode.shortcode)
    /\ snPc' = "checked"
    /\ UNCHANGED <<exceptSn, snResp>>

SnNext == SnCheck

SpecSanity == SnInit /\ [][SnNext]_vars

(***************************************************************************)
(* SpecShortcode: build_shortcode_map on drawn inputs.                     *)
(***************************************************************************)
MaxValues == 3

\* "" (or None), three ids whose digests differ, and a fourth id, <<0, 1>>,
\* whose whole digest equals that of <<1>>
ScIds == {<<>>, <<1>>, <<2>>, <<17>>, <<0, 1>>}

\* where the digits that tell the digests apart lie: with these positions
\* each of the eight length steps is the first collision-free one for some
\* pair of ids
ScHashPositions == {5, 6, 10, 18, 30, 61}

EffectiveIds(values) == Range(values) \ {<<>>}

ScInit ==
    /\ hashPos \in ScHashPositions
    /\ remoteSizes = [f \in RemoteFolderIds |-> 0]
    /\ IndexIdle
    /\ PureIdle("sc")
    /\ scPc = "input"
    /\ scValues1 \in SeqsUpTo(ScIds, MaxValues)
    /\ scValues2 = <<>>
    /\ scResult1 = NoResult
    /\ scResult2 = NoResult

ScBuildFirst ==
    /\ scPc = "input"
    /\ scResult1' = build_shortcode_map(scValues1)
    /\ scPc' = "built1"
    /\ UNCHANGED <<exceptSc, scValues1, scValues2, scResult2>>

\* a later invocation on a grown id list: the values of the first one and
\* further values after them
ScBuildGrown ==
    /\ scPc = "built1"
    /\ \E more \in SeqsUpTo(ScIds, MaxValues - Len(scValues1)) :
        /\ more # <<>>
        /\ scValues2' = scValues1 \o more
        /\ scResult2' = build_shortcode_map(scValues1 \o more)
    /\ scPc' = "grown"
    /\ UNCHANGED <<exceptSc, scValues1, scResult1>>

\* a second invocation, on the same ids in any order and with any repeats
ScBuildSecond ==
    /\ scPc = "built1"
    /\ \E values \in SeqsUpTo(ScIds, MaxValues) :
        /\ EffectiveIds(values) = EffectiveIds(scValues1)
        /\ scValues2' = values
        /\ scResult2' = build_shortcode_map(values)
    /\ scPc' = "built2"
    /\ UNCHANGED <<exceptSc, scValues1, scResult1>>

ScNext == ScBuildFirst \/ ScBuildSecond \/ ScBuildGrown

SpecShortcode == ScInit /\ [][ScNext]_vars

(***************************************************************************)
(* Properties.                                                             *)
(***************************************************************************)
(***************************************************************************)
(* SpecThreader: index_folder_organize_into_conversations (indexing.py,    *)
(* lines 257-322) applied to a drawn metadata artifact.  The messages      *)
(* differ in conversation, token, and in whether receivedEpoch is a        *)
(* number, null or absent.                                                 *)
(***************************************************************************)
MaxThMessages == 3

\* "AQI" and "AQM": the Base64 of the bytes 01 02 and 01 03 without padding
ThToken12 == <<0, 16, 8>>

ThToken13 == <<0, 16, 12>>

\* [cid, token, has, epoch]: has = FALSE is a record without receivedEpoch;
\* two conversations and messages of none, tokens of equal and of different
\* bytes, an empty token, one that is a prefix and one that cannot be decoded
ThShapes ==
    [cid : {<<67>>, <<68>>}, token : {ThToken12, ThToken13},
     has : {TRUE}, epoch : {<<>>, <<1000>>, <<2000>>}]
    \cup [cid : {<<67>>, <<68>>}, token : {ThToken12, ThToken13},
          has : {FALSE}, epoch : {<<>>}]
    \cup [cid : {<<67>>}, token : {<<>>, <<5>>, <<0, 16>>},
          has : {TRUE}, epoch : {<<1000>>}]
    \cup [cid : {<<>>}, token : {ThToken12}, has : {TRUE}, epoch : {<<1000>>}]

\* the artifact's entries are keyed by message id, so the ids are distinct
ThArtifact(shapes) ==
    LET ThMessage(id, shape) ==
            IF shape.has
            THEN [id |-> id, conversationId |-> shape.cid,
                  conversationIndex |-> shape.token,
                  receivedEpoch |-> shape.epoch, shortcode |-> <<>>]
            ELSE [id |-> id, conversationId |-> shape.cid,
                  conversationIndex |-> shape.token, shortcode |-> <<>>]
    IN  [j \in 1..Len(shapes) |->
            [k |-> <<1, j>>, v |-> ThMessage(<<1, j>>, shapes[j])]]

ThInit ==
    /\ hashPos = 5
    /\ remoteSizes = [f \in RemoteFolderIds |-> 0]
    /\ IndexIdle
    /\ PureIdle("th")
    /\ thPc = "input"
    /\ \E shapes \in SeqsUpTo(ThShapes, MaxThMessages) : thMeta = ThArtifact(shapes)
    /\ thOut = [raised |-> FALSE, conversations |-> <<>>]

ThOrganize ==
    /\ thPc = "input"
    /\ thOut' = IF OrganizeRaises(thMeta)
                THEN [raised |-> TRUE, conversations |-> <<>>]
                ELSE [raised |-> FALSE,
                      conversations |->
                          OrganizePayload(InboxId, <<>>, thMeta).conversations]
    /\ thPc' = "done"
    /\ UNCHANGED <<exceptTh, thMeta>>

ThNext == ThOrganize

SpecThreader == ThInit /\ [][ThNext]_vars

(***************************************************************************)
(* SpecNaming: _safe_filename and _truncate_subject (outputting.py, lines  *)
(* 15-94) on drawn names.  A character is its code point.                  *)
(***************************************************************************)
\* lines 15-40; "con", "prn", "aux", "nul", "com1".."com9", "lpt1".."lpt9"
WIN_RESERVED ==
    {<<99, 111, 110>>, <<112, 114, 110>>, <<97, 117, 120>>, <<110, 117, 108>>}
    \cup {<<99, 111, 109, 48 + d>> : d \in 1..9}
    \cup {<<108, 112, 116, 48 + d>> : d \in 1..9}

\* line 42: "INVALID_FILENAME"
DEFAULT_NAME ==
    <<73, 78, 86, 65, 76, 73, 68, 95, 70, 73, 76, 69, 78, 65, 77, 69>>

\* U+0301 COMBINING ACUTE ACCENT
CombiningAcute == 769

\* the precomposed character of a letter followed by U+0301, for the letters
\* of the names drawn here and of the hex digits: A, C, E, N, l, n, u
Precomposed ==
    [c \in {65, 67, 69, 78, 108, 110, 117} |->
        CASE c = 65 -> 193 [] c = 67 -> 262 [] c = 69 -> 201 [] c = 78 -> 323
          [] c = 108 -> 314 [] c = 110 -> 324 [] c = 117 -> 250]

\* line 48, unicodedata.normalize("NFC", ..): a letter and the accent that
\* follows it become the precomposed character
Nfc(s) ==
    LET n == Len(s)
        Composes(j) == j < n /\ s[j] \in DOMAIN Precomposed /\ s[j + 1] = CombiningAcute
        Absorbed(j) == j > 1 /\ Composes(j - 1)
        Kept(j) == ~Absorbed(j)
        kept == SelectSeq([j \in 1..n |-> j], Kept)
    IN  [k \in 1..Len(kept) |->
            IF Composes(kept[k]) THEN Precomposed[s[kept[k]]] ELSE s[kept[k]]]

\* str.isspace of the characters below U+0100
IsSpace(c) == c \in (9..13) \cup (28..32) \cup {133, 160}

\* line 48, str.strip()
Strip(s) ==
    LET inside == {j \in 1..Len(s) : ~IsSpace(s[j])}
    IN  IF inside = {} THEN <<>>
        ELSE SubSeq(s, CHOOSE a \in inside : \A j \in inside : a <= j,
                       CHOOSE b \in inside : \A j \in inside : j <= b)

\* line 49, re.fullmatch(r"[\x00-\x1F\x7F]+", name)
IsControl(c) == c <= 31 \/ c = 127

\* line 55, name.split(".")[0].lower()
Lower(c) == IF (c >= 65 /\ c <= 90) \/ c = 193 \/ c = 201 THEN c + 32
            ELSE IF c = 262 \/ c = 323 THEN c + 1 ELSE c

raw_base(name) ==
    LET dots == {j \in 1..Len(name) : name[j] = 46}
        stop == IF dots = {} THEN Len(name) + 1
                ELSE CHOOSE a \in dots : \A j \in dots : a <= j
    IN  [j \in 1..(stop - 1) |-> Lower(name[j])]

\* lines 67-76: the characters written as %XX
IsForbidden(c) == c \in {60, 62, 58, 34, 47, 92, 124, 63, 42}

HexChar(d) == IF d < 10 THEN 48 + d ELSE 55 + d

\* line 44, for a character of one UTF-8 byte
_utf8_percent_encode(c) == <<37, HexChar(c \div 16), HexChar(c % 16)>>

\* lines 64-79: every control or forbidden character becomes three
EncodeAll(name) ==
    LET Wide(j) == IsControl(name[j]) \/ IsForbidden(name[j])
        start == [j \in 1..Len(name) |->
                    j + 2 * Cardinality({i \in 1..(j - 1) : Wide(i)})]
        total == Len(name) + 2 * Cardinality({i \in 1..Len(name) : Wide(i)})
    IN  [k \in 1..total |->
            LET j == CHOOSE j \in 1..Len(name) :
                        start[j] <= k /\ k <= start[j] + (IF Wide(j) THEN 2 ELSE 0)
            IN  IF Wide(j) THEN _utf8_percent_encode(name[j])[k - start[j] + 1]
                ELSE name[j]]

\* lines 47-80
_safe_filename(input_name) ==
    LET stripped == Strip(Nfc(input_name))
        name1 == IF stripped = <<>> \/ \A j \in 1..Len(stripped) : IsControl(stripped[j])
                 THEN DEFAULT_NAME ELSE stripped
        name2 == IF name1 \in {<<46>>, <<46, 46>>} THEN <<95>> \o name1 ELSE name1
        name3 == IF raw_base(name2) \in WIN_RESERVED THEN <<95>> \o name2 ELSE name2
        \* lines 59-60: the loop ends after one turn, the last character
        \* being "_" from then on
        name4 == IF name3 # <<>> /\ name3[Len(name3)] \in {32, 46}
                 THEN SubSeq(name3, 1, Len(name3) - 1) \o <<95>> ELSE name3
        name5 == IF name4 = <<>> THEN DEFAULT_NAME ELSE name4
        joined == EncodeAll(name5)
    IN  IF joined = <<>> THEN DEFAULT_NAME ELSE joined

\* str(removed)
RECURSIVE Decimal(_)
Decimal(n) == IF n < 10 THEN <<48 + n>> ELSE Decimal(n \div 10) \o <<48 + (n % 10)>>

\* lines 83-94
_truncate_subject(value, limit) ==
    IF Len(value) <= limit THEN value
    ELSE LET cut == SubSeq(value, 1, limit)
             trimmed ==
                IF cut # <<>> /\ cut[Len(cut)] = 37
                THEN SubSeq(cut, 1, Len(cut) - 1)
                ELSE IF Len(cut) >= 2 /\ cut[Len(cut) - 1] = 37
                     THEN SubSeq(cut, 1, Len(cut) - 2)
                     ELSE cut
             removed == Len(value) - Len(trimmed)
         IN  IF removed <= 0 THEN trimmed
             ELSE trimmed \o <<46, 46, 46, 40>> \o Decimal(removed)
                          \o <<32, 109, 111, 114, 101, 41>>

MaxPieces == 4

MaxSubjectChars == 4

\* the pieces a drawn name is made of: "nul", "Nul", ".", " ", ":", "/", a
\* control character, the combining accent
NmPieces ==
    {<<110, 117, 108>>, <<78, 117, 108>>, <<46>>, <<32>>, <<58>>, <<47>>,
     <<1>>, <<CombiningAcute>>}

RECURSIVE Join(_)
Join(pieces) == IF pieces = <<>> THEN <<>> ELSE Head(pieces) \o Join(Tail(pieces))

NmInit ==
    /\ hashPos = 5
    /\ remoteSizes = [f \in RemoteFolderIds |-> 0]
    /\ IndexIdle
    /\ PureIdle("nm")
    /\ nmPc = "input"
    /\ \E pieces \in SeqsUpTo(NmPieces, MaxPieces) : nmInput = Join(pieces)
    /\ nmOnce = <<>>
    /\ nmTwice = <<>>
    /\ nmLimit = 0
    /\ nmTrunc = <<>>

NmSafeFilename ==
    /\ nmPc = "input"
    /\ nmOnce' = _safe_filename(nmInput)
    /\ nmPc' = "safe"
    /\ UNCHANGED <<exceptNm, nmInput, nmTwice, nmLimit, nmTrunc>>

\* the export applied to a tree that was written with safe names
NmSafeFilenameAgain ==
    /\ nmPc = "safe"
    /\ nmTwice' = _safe_filename(nmOnce)
    /\ nmPc' = "again"
    /\ UNCHANGED <<exceptNm, nmInput, nmOnce, nmLimit, nmTrunc>>

\* lines 331-333 and 370-372: the subject is made safe, then truncated
NmTruncateSubject ==
    /\ nmPc = "safe"
    /\ \E limit \in 1..MaxSubjectChars :
        /\ nmLimit' = limit
        /\ nmTrunc' = _truncate_subject(nmOnce, limit)
    /\ nmPc' = "truncated"
    /\ UNCHANGED <<exceptNm, nmInput, nmOnce, nmTwice>>

NmNext == NmSafeFilename \/ NmSafeFilenameAgain \/ NmTruncateSubject

SpecNaming == NmInit /\ [][NmNext]_vars

(***************************************************************************)
(* SpecArchive: the download command (helpers/outlook/downloading.py) and  *)
(* the export command (helpers/outlook/outputting.py) over an indexed      *)
(* working directory.  The forest is a list of top-level folders; a folder *)
(* is the list of its conversations, a conversation the list of its        *)
(* message numbers, as the conversation artifact of the folder holds them. *)
(***************************************************************************)
MaxRuns == 2

\* two folders with three messages in two conversations; two empty folders;
\* a forest without folders
ArMailboxes ==
    { << << <<1, 2>> >>, << <<3>> >> >>,
      << <<>>, <<>> >>,
      <<>> }

Att(id, type, contentBytes, item) ==
    [id |-> id, type |-> type, contentBytes |-> contentBytes, item |-> item]

\* What the remote holds for message n: the attachment list of the dedicated
\* route, the list embedded in the message, and the item the attachment
\* detail carries.  A file attachment either brings its bytes in the list
\* entry or needs the binary route.
RemoteMessage(n) ==
    CASE n % 3 = 1 ->
           [dedicated |-> <<Att(1, "fileAttachment", FALSE, "none"),
                            Att(2, "referenceAttachment", FALSE, "none")>>,
            embedded |-> <<Att(3, "fileAttachment", TRUE, "none")>>,
            detailItem |-> "none"]
      [] n % 3 = 2 ->
           [dedicated |-> <<Att(1, "itemAttachment", FALSE, "none")>>,
            embedded |-> <<>>,
            detailItem |-> "event"]
      [] OTHER ->
           [dedicated |-> <<>>,
            embedded |-> <<Att(1, "fileAttachment", TRUE, "none")>>,
            detailItem |-> "none"]

ArRoutes ==
    {"get-message", "get-attachments", "get-attachment",
     "get-attachment-value", "get-item-value"}

\* _api_request_json, _api_request_binary (downloading.py 23-69) and
\* call_route: without a token None is returned and nothing is sent
\* ("unsent"); a 401 or another non-2xx status gives None ("none"); an
\* exception of requests is not caught ("raise").
ApiKinds ==
    IF ~arDir.jwt THEN {"unsent"}
    ELSE IF arRejected THEN {"none"}
    ELSE {"ok", "none", "raise"}

ArCall(route, msg, outcome) == [route |-> route, msg |-> msg, outcome |-> outcome]

Path(kind, f, c, m) == [kind |-> kind, f |-> f, c |-> c, m |-> m]

\* a message directory of the cache before anything is written into it
EmptyBundle ==
    [message |-> FALSE, attachments |-> <<>>, files_map |-> <<>>,
     complete |-> FALSE, payloads |-> {}, links |-> {}, items |-> {}, ics |-> {}]

FileEntry(att, hasPath) ==
    [attachmentId |-> att.id, attachmentType |-> att.type, relativePath |-> hasPath]

\* downloading.py 289-430: one round of the loop over the attachments.  acc
\* is [bundle, calls, end]; o gives the outcome of each route for this
\* message.
ExportAttachment(acc, att, n, o) ==
    LET b == acc.bundle
        listed(hasPath) == Append(b.files_map, FileEntry(att, hasPath))
    IN  IF acc.end # "ok" THEN acc
        ELSE IF att.type = "referenceAttachment" THEN
            [acc EXCEPT !.bundle = [b EXCEPT !.links = @ \cup {att.id},
                                             !.files_map = listed(FALSE)]]
        ELSE IF att.type = "fileAttachment" THEN
            IF att.contentBytes
            THEN [acc EXCEPT !.bundle = [b EXCEPT !.payloads = @ \cup {att.id},
                                                  !.files_map = listed(TRUE)]]
            ELSE LET k == o["get-attachment-value"]
                     sent == Append(acc.calls, ArCall("get-attachment-value", n, k))
                 IN  IF k = "raise" THEN [acc EXCEPT !.calls = sent, !.end = "crash"]
                     ELSE [bundle |-> [b EXCEPT
                                          !.payloads = IF k = "ok" THEN @ \cup {att.id} ELSE @,
                                          !.files_map = listed(TRUE)],
                           calls |-> sent, end |-> "ok"]
        ELSE \* itemAttachment
            LET k == o["get-attachment"]
                sent == Append(acc.calls, ArCall("get-attachment", n, k))
                item == IF k = "ok" THEN RemoteMessage(n).detailItem ELSE att.item
                k2 == o["get-item-value"]
                sent2 == Append(sent, ArCall("get-item-value", n, k2))
                withDetail == [b EXCEPT !.items = @ \cup {att.id}]
            IN  IF k = "raise" THEN [acc EXCEPT !.calls = sent, !.end = "crash"]
                ELSE IF item # "event" THEN
                    [bundle |-> [withDetail EXCEPT !.files_map = listed(TRUE)],
                     calls |-> sent, end |-> "ok"]
                ELSE IF k2 = "raise" THEN
                    [bundle |-> withDetail, calls |-> sent2, end |-> "crash"]
                ELSE [bundle |-> [withDetail EXCEPT
                                     !.ics = IF k2 = "ok" THEN @ \cup {att.id} ELSE @,
                                     !.files_map = listed(TRUE)],
                      calls |-> sent2, end |-> "ok"]

\* downloading.py 248-444
_export_message_from_data(n, old, o) ==
    LET RECURSIVE Loop(_, _)
        Loop(acc, atts) ==
            IF atts = <<>> THEN acc
            ELSE Loop(ExportAttachment(acc, Head(atts), n, o), Tail(atts))
        k == o["get-attachments"]
        sent == <<ArCall("get-attachments", n, k)>>
        fetched == IF k = "ok" THEN RemoteMessage(n).dedicated ELSE <<>>
        attachments == IF fetched # <<>> THEN fetched ELSE RemoteMessage(n).embedded
        start == [old EXCEPT !.message = TRUE, !.files_map = <<>>, !.complete = FALSE]
        looped == Loop([bundle |-> [start EXCEPT !.attachments = attachments],
                        calls |-> sent, end |-> "ok"], attachments)
    IN  IF k = "raise" THEN [bundle |-> start, calls |-> sent, end |-> "crash"]
        ELSE IF looped.end # "ok" THEN looped
        ELSE [looped EXCEPT !.bundle.complete = TRUE]

\* a message whose bundle holds a message.json is not requested again
_export_message_by_id_SkipsExisting(n, old, o) ==
    LET k == o["get-message"]
        first == <<ArCall("get-message", n, k)>>
        rest == _export_message_from_data(n, old, o)
    IN  IF old.message THEN [bundle |-> old, calls |-> <<>>, end |-> "ok"]
        ELSE IF k = "raise" THEN [bundle |-> old, calls |-> first, end |-> "crash"]
        ELSE IF k # "ok" THEN [bundle |-> old, calls |-> first, end |-> "fail"]
        ELSE [rest EXCEPT !.calls = first \o @]

\* downloading.py 447-452
_export_message_by_id(n, old, o) ==
    LET k == o["get-message"]
        first == <<ArCall("get-message", n, k)>>
        rest == _export_message_from_data(n, old, o)
    IN  IF k = "raise" THEN [bundle |-> old, calls |-> first, end |-> "crash"]
        ELSE IF k # "ok" THEN [bundle |-> old, calls |-> first, end |-> "fail"]
        ELSE [rest EXCEPT !.calls = first \o @]

\* the requests among these calls that went out
SentCalls(cs) ==
    LET Out(c) == c.outcome # "unsent"
    IN  SelectSeq(cs, Out)

NoRun ==
    [cmd |-> "none", result |-> "none", cred |-> FALSE, f |-> 1, c |-> 1, m |-> 1,
     why |-> "", made |-> {}, sent |-> 0, wrote |-> {}, runs |-> 0]

ArStarted(cmd) ==
    [NoRun EXCEPT !.cmd = cmd, !.cred = arDir.jwt /\ ~arRejected,
                  !.runs = arRun.runs + 1]

\* the step created or wrote `made`, sent `cs`, and the command goes on
ArContinue(run, phase, f, c, m, made, cs) ==
    /\ arPc' = phase
    /\ arRun' = [run EXCEPT !.f = f, !.c = c, !.m = m, !.made = made,
                            !.sent = Len(SentCalls(cs)), !.wrote = @ \cup made]
    /\ arCalls' = (IF run.runs = arRun.runs THEN arCalls ELSE <<>>) \o cs

\* the step created or wrote `made`, sent `cs`, and the command returns
ArReturn(run, res, why, made, cs) ==
    /\ arPc' = "done"
    /\ arRun' = [run EXCEPT !.result = res, !.why = why, !.made = made,
                            !.sent = Len(SentCalls(cs)), !.wrote = @ \cup made]
    /\ arCalls' = (IF run.runs = arRun.runs THEN arCalls ELSE <<>>) \o cs

\* the position after message m of conversation c of folder f
ArAfterMessage(run, made, cs) ==
    LET folder == arBox[run.f]
    IN  IF run.m < Len(folder[run.c])
        THEN ArContinue(run, "message", run.f, run.c, run.m + 1, made, cs)
        ELSE IF run.c < Len(folder)
        THEN ArContinue(run, "conversation", run.f, run.c + 1, 1, made, cs)
        ELSE ArContinue(run, "folder", run.f + 1, 1, 1, made, cs)

\* os.makedirs(path, exist_ok=True): what it creates
Ensured(existing, path) == IF path \in existing THEN {} ELSE {path}

\* download_all_folders, downloading.py 583-594
ArStartDownload ==
    /\ arPc \in {"ready", "done"}
    /\ arRun.runs < MaxRuns
    /\ LET run == ArStarted("download")
           root == Path("cache_root", 0, 0, 0)
       IN  IF ~arDir.forest
           THEN ArReturn(run, "fail", "forest", {}, <<>>) /\ UNCHANGED arDir
           ELSE IF arBox = <<>>
           THEN ArReturn(run, "fail", "no_folders", {}, <<>>) /\ UNCHANGED arDir
           ELSE /\ ArContinue(run, "folder", 1, 1, 1, Ensured(arDir.cache, root), <<>>)
                /\ arDir' = [arDir EXCEPT !.cache = @ \cup {root}]
    /\ UNCHANGED <<exceptAr, arBox, arRejected, arOut>>

\* lines 596-611, and line 646 after the last folder
ArDownloadFolder ==
    /\ arPc = "folder"
    /\ arRun.cmd = "download"
    /\ LET f == arRun.f
           dir == Path("cache_folder", f, 0, 0)
       IN  IF f > Len(arBox)
           THEN ArReturn(arRun, "ok", "", {}, <<>>) /\ UNCHANGED arDir
           ELSE IF f \notin arDir.convs
           THEN ArReturn(arRun, "fail", "conversations", {}, <<>>) /\ UNCHANGED arDir
           ELSE /\ arDir' = [arDir EXCEPT !.cache = @ \cup {dir}]
                /\ IF arBox[f] = <<>>
                   THEN ArContinue(arRun, "folder", f + 1, 1, 1,
                                   Ensured(arDir.cache, dir), <<>>)
                   ELSE ArContinue(arRun, "conversation", f, 1, 1,
                                   Ensured(arDir.cache, dir), <<>>)
    /\ UNCHANGED <<exceptAr, arBox, arRejected, arOut>>

\* lines 616-622
ArDownloadConversation ==
    /\ arPc = "conversation"
    /\ arRun.cmd = "download"
    /\ LET dir == Path("cache_conv", arRun.f, arRun.c, 0)
       IN  /\ arDir' = [arDir EXCEPT !.cache = @ \cup {dir}]
           /\ ArContinue(arRun, "message", arRun.f, arRun.c, 1,
                         Ensured(arDir.cache, dir), <<>>)
    /\ UNCHANGED <<exceptAr, arBox, arRejected, arOut>>

\* lines 624-643: the message directory, then _export_message_by_id
ArDownloadMessage ==
    /\ arPc = "message"
    /\ arRun.cmd = "download"
    /\ \E o \in [ArRoutes -> ApiKinds] :
        LET n == arBox[arRun.f][arRun.c][arRun.m]
            dir == Path("bundle", arRun.f, arRun.c, arRun.m)
            old == IF n \in DOMAIN arDir.bundles THEN arDir.bundles[n] ELSE EmptyBundle
            done == _export_message_by_id(n, old, o)
            made == Ensured(arDir.cache, dir)
                        \cup (IF done.bundle # old THEN {Path("bundle_files", arRun.f, arRun.c, arRun.m)}
                              ELSE {})
        IN  /\ arDir' = [arDir EXCEPT !.cache = @ \cup {dir},
                                      !.bundles = DictPut(@, n, done.bundle)]
            /\ IF done.end = "ok"
               THEN ArAfterMessage(arRun, made, done.calls)
               ELSE ArReturn(arRun, done.end, "message", made, done.calls)
    /\ UNCHANGED <<exceptAr, arBox, arRejected, arOut>>

\* export_outlook_output, outputting.py 231-264
ArStartExport ==
    /\ arPc \in {"ready", "done"}
    /\ arRun.runs < MaxRuns
    /\ LET run == ArStarted("export")
           outdir == Path("outdir", 0, 0, 0)
           me == Path("me.json", 0, 0, 0)
       IN  IF ~arDir.forest
           THEN ArReturn(run, "fail", "forest", {}, <<>>) /\ UNCHANGED arOut
           ELSE IF Path("cache_root", 0, 0, 0) \notin arDir.cache
           THEN ArReturn(run, "fail", "caches", {}, <<>>) /\ UNCHANGED arOut
           ELSE \E k \in ApiKinds :
                   LET cs == <<ArCall("me", 0, k)>>
                   IN  IF k = "raise"
                       THEN /\ ArReturn(run, "crash", "me", Ensured(arOut, outdir), cs)
                            /\ arOut' = arOut \cup {outdir}
                       ELSE /\ ArContinue(run, "folder", 1, 1, 1,
                                          Ensured(arOut, outdir) \cup {me}, cs)
                            /\ arOut' = arOut \cup {outdir, me}
    /\ UNCHANGED <<exceptAr, arBox, arRejected, arDir>>

\* lines 267-313, and line 423 after the last folder
ArExportFolder ==
    /\ arPc = "folder"
    /\ arRun.cmd = "export"
    /\ LET f == arRun.f
           dir == Path("folder", f, 0, 0)
           index == Path("folder_index.json", f, 0, 0)
       IN  IF f > Len(arBox)
           THEN ArReturn(arRun, "ok", "", {}, <<>>) /\ UNCHANGED arOut
           ELSE IF f \notin arDir.convs
           THEN /\ ArReturn(arRun, "fail", "conversations", Ensured(arOut, dir), <<>>)
                /\ arOut' = arOut \cup {dir}
           ELSE /\ arOut' = arOut \cup {dir, index}
                /\ IF arBox[f] = <<>>
                   THEN ArContinue(arRun, "folder", f + 1, 1, 1,
                                   Ensured(arOut, dir) \cup {index}, <<>>)
                   ELSE ArContinue(arRun, "conversation", f, 1, 1,
                                   Ensured(arOut, dir) \cup {index}, <<>>)
    /\ UNCHANGED <<exceptAr, arBox, arRejected, arDir>>

\* lines 317-341
ArExportConversation ==
    /\ arPc = "conversation"
    /\ arRun.cmd = "export"
    /\ LET dir == Path("conversation", arRun.f, arRun.c, 0)
       IN  /\ arOut' = arOut \cup {dir}
           /\ ArContinue(arRun, "message", arRun.f, arRun.c, 1, Ensured(arOut, dir), <<>>)
    /\ UNCHANGED <<exceptAr, arBox, arRejected, arDir>>

\* lines 360-420: _copy_message_cache, message_index.json, and after the last
\* message of the conversation conversation_index.json
ArExportMessage ==
    /\ arPc = "message"
    /\ arRun.cmd = "export"
    /\ LET f == arRun.f
           c == arRun.c
           m == arRun.m
           dir == Path("message", f, c, m)
           copied == {dir, Path("message_index.json", f, c, m)}
           closing == IF m = Len(arBox[f][c])
                      THEN {Path("conversation_index.json", f, c, 0)} ELSE {}
       IN  IF Path("bundle", f, c, m) \notin arDir.cache
           THEN ArReturn(arRun, "fail", "bundle", {}, <<>>) /\ UNCHANGED arOut
           ELSE /\ arOut' = arOut \cup copied \cup closing
                /\ ArAfterMessage(arRun, copied \cup closing, <<>>)
    /\ UNCHANGED <<exceptAr, arBox, arRejected, arDir>>

\* logout.py 22-29, 56: the token file is removed; or the token expires and
\* the backend answers 401 from then on (call_route.py 128-129)
ArCredentialLost ==
    /\ arPc \in {"ready", "done"}
    /\ \/ arDir.jwt /\ arDir' = [arDir EXCEPT !.jwt = FALSE] /\ UNCHANGED arRejected
       \/ arDir.jwt /\ ~arRejected /\ arRejected' = TRUE /\ UNCHANGED arDir
    /\ UNCHANGED <<exceptAr, arPc, arBox, arRun, arCalls, arOut>>

\* an indexed working directory: the forest and each folder's conversation
\* artifact are there, unless the index never ran or a file was removed
ArInit ==
    /\ IndexIdle
    /\ PureIdle("ar")
    /\ hashPos = 5
    /\ remoteSizes = [f \in RemoteFolderIds |-> 0]
    /\ arPc = "ready"
    /\ arBox \in ArMailboxes
    /\ \E hasJwt \in BOOLEAN, hasForest \in BOOLEAN, convs \in SUBSET (1..Len(arBox)) :
          arDir = [jwt |-> hasJwt, forest |-> hasForest, convs |-> convs,
                   cache |-> {}, bundles |-> [n \in {} |-> EmptyBundle]]
    /\ arRejected = FALSE
    /\ arRun = NoRun
    /\ arCalls = <<>>
    /\ arOut = {}

ArNext ==
    \/ ArStartDownload
    \/ ArDownloadFolder
    \/ ArDownloadConversation
    \/ ArDownloadMessage
    \/ ArStartExport
    \/ ArExportFolder
    \/ ArExportConversation
    \/ ArExportMessage
    \/ ArCredentialLost

SpecArchive == ArInit /\ [][ArNext]_vars

(***************************************************************************)
(* SpecOrdinal: _order_prefix (outputting.py, lines 137-139) over the      *)
(* positions of an enumeration of opTotal conversations or messages        *)
(* (lines 316-317, 336, 359-360, 375).  A string is the sequence of its   *)
(* character codes.                                                        *)
(***************************************************************************)
MaxTotal == 101

\* line 137: min_digits: int = 2
OrderPrefixMinDigits == 2

\* the format 0{digits}d without its zeros
ZeroPadded_Unpadded(index, digits) == Decimal(index)

\* line 139, {index:0{digits}d}: zeros on the left up to the width; a longer
\* number is not cut
ZeroPadded(index, digits) ==
    LET text == Decimal(index)
    IN  IF Len(text) >= digits THEN text
        ELSE [j \in 1..(digits - Len(text)) |-> 48] \o text

\* lines 138-139
_order_prefix(index, total) ==
    LET len == Len(Decimal(IF total > 1 THEN total ELSE 1))
        digits == IF OrderPrefixMinDigits > len THEN OrderPrefixMinDigits ELSE len
    IN  <<Underscore, Underscore>> \o ZeroPadded(index, digits)
            \o <<Underscore, Underscore>>

OpInit ==
    /\ hashPos = 5
    /\ remoteSizes = [f \in RemoteFolderIds |-> 0]
    /\ IndexIdle
    /\ PureIdle("op")
    /\ opPc = "input"
    /\ opTotal \in 0..MaxTotal
    /\ opPrefixes = <<>>

\* enumerate(conversations, start=1) with total_conversations, and
\* enumerate(messages, start=1) with total_messages
OpEnumerate ==
    /\ opPc = "input"
    /\ opPrefixes' = [index \in 1..opTotal |-> _order_prefix(index, opTotal)]
    /\ opPc' = "done"
    /\ UNCHANGED <<exceptOp, opTotal>>

OpNext == OpEnumerate

SpecOrdinal == OpInit /\ [][OpNext]_vars

(***************************************************************************)
(* SpecFolderPaths: the folder directories of export_outlook_output        *)
(* (outputting.py, lines 189-207 and 266-277) for drawn forests.  The      *)
(* index has given every folder its shortcode (index.py, lines 45-57).     *)
(***************************************************************************)
MaxFpFolders == 3

\* display names: "A", "a/b", "nul", and none
FpNames == {<<65>>, <<97, 47, 98>>, <<110, 117, 108>>, <<>>}

\* the output directory, "out"
FpOutdir == <<111, 117, 116>>

\* the folders are numbered in pre-order; parent[i] = 0 for a root.  The
\* parent of a folder is the folder before it or one of that folder's
\* ancestors
FpOnPath(parent, i) ==
    LET path[j \in 0..i] == IF j = 0 THEN {0} ELSE {j} \cup path[parent[j]]
    IN  path[i]

FpPreOrders(n) ==
    {parent \in [1..n -> 0..(n - 1)] :
        \A i \in 1..n : /\ parent[i] < i
                        /\ i > 1 => parent[i] \in FpOnPath(parent, i - 1)}

\* the forest of folders with ids <<1>>, <<2>>, ..: the children of folder k
RECURSIVE FpChildren(_, _, _)
FpChildren(parent, names, k) ==
    LET Under(i) == parent[i] = k
        kids == SelectSeq([i \in 1..Len(names) |-> i], Under)
    IN  [j \in 1..Len(kids) |->
            [id |-> <<kids[j]>>, name |-> names[kids[j]], shortcode |-> <<>>,
             children |-> FpChildren(parent, names, kids[j])]]

\* index.py lines 45-57: the forest as the checkpoint holds it
FpCheckpoint(forest) ==
    apply_folder_shortcodes(forest,
        build_shortcode_map(FolderIdsOf(forest)).id_to_shortcode)

\* lines 189-201: (parents, node) in pre-order, parents from the root down
RECURSIVE _collect_folders_in_order(_, _)
_collect_folders_in_order(forest, prior) ==
    IF forest = <<>> THEN <<>>
    ELSE LET node == Head(forest)
         IN  <<[parents |-> prior, node |-> node]>>
             \o _collect_folders_in_order(node.children, Append(prior, node))
             \o _collect_folders_in_order(Tail(forest), prior)

\* a segment made of the safe name alone
_build_folder_segment_NameOnly(node) == _safe_filename(node.name)

\* lines 204-207; "__missing__" stands in for a shortcode that is not there
_build_folder_segment(node) ==
    LET shortcode == IF node.shortcode # <<>> THEN node.shortcode
                     ELSE <<95, 95, 109, 105, 115, 115, 105, 110, 103, 95, 95>>
        safe_name == _safe_filename(node.name)
    IN  shortcode \o <<Underscore, Underscore>> \o safe_name

\* os.path.join of relative parts
RECURSIVE os_path_join(_)
os_path_join(parts) ==
    IF Len(parts) = 1 THEN parts[1]
    ELSE parts[1] \o <<47>> \o os_path_join(Tail(parts))

\* lines 274-275: the segments of the parents, then the folder's own
FolderSegments(entry) ==
    [j \in 1..(Len(entry.parents) + 1) |->
        _build_folder_segment((entry.parents \o <<entry.node>>)[j])]

\* lines 266-277: one turn of the loop over the folders
FolderOutDir(entry) == os_path_join(<<FpOutdir>> \o FolderSegments(entry))

FpInit ==
    /\ hashPos = 5
    /\ remoteSizes = [f \in RemoteFolderIds |-> 0]
    /\ IndexIdle
    /\ PureIdle("fp")
    /\ fpPc = "input"
    /\ \E n \in 1..MaxFpFolders :
          \E parent \in FpPreOrders(n), names \in [1..n -> FpNames] :
              fpForest = FpChildren(parent, names, 0)
    /\ fpDirs = <<>>

\* the index writes the checkpoint, the export walks it
FpExport ==
    /\ fpPc = "input"
    /\ \E folders \in {_collect_folders_in_order(FpCheckpoint(fpForest), <<>>)} :
          fpDirs' = [k \in 1..Len(folders) |->
                        [id |-> folders[k].node.id, dir |-> FolderOutDir(folders[k])]]
    /\ fpPc' = "done"
    /\ UNCHANGED <<exceptFp, fpForest>>

FpNext == FpExport

SpecFolderPaths == FpInit /\ [][FpNext]_vars

(***************************************************************************)
(* SpecHydrate: index_folder_get_top_level_metadata (indexing.py, lines    *)
(* 184-226) on a drawn id list, with a drawn answer to each chunk's        *)
(* request.  The metadata file is absent, the id list has passed the       *)
(* sanity check: its ids are distinct.                                     *)
(***************************************************************************)
MaxHyIds == 21

\* what the backend answers: no 2xx status, a body that is no object, one
\* without "messages", one whose "messages" is no list, and lists with a
\* record for every requested id, with the last one missing, and with one
\* record more
HyKinds == {"raise", "none", "nondict", "nokey", "nolist", "exact", "short", "long"}

\* the "messages" of a response that has the list
HyMessages(kind, chunk_ids) ==
    LET records == RemoteHydrate(chunk_ids)
    IN  CASE kind = "exact" -> records
          [] kind = "short" -> SubSeq(records, 1, Len(records) - 1)
          [] kind = "long" ->
                Append(records, RemoteMetadata(<<InboxId[1], MaxHyIds + 1>>))

\* lines 203-220, the loop over the chunks from chunk c on; acc is
\* [verdict, map]
RECURSIVE HydrateFrom(_, _, _, _)
HydrateFrom(chunks, kinds, c, acc) ==
    IF c > Len(chunks) THEN acc
    ELSE CASE kinds[c] \in {"raise", "nokey"} -> [acc EXCEPT !.verdict = "crash"]
           [] kinds[c] \in {"none", "nondict", "nolist"} -> [acc EXCEPT !.verdict = "fail"]
           [] OTHER ->
                HydrateFrom(chunks, kinds, c + 1,
                    [acc EXCEPT !.map =
                        MergeChunk(acc.map, chunks[c], HyMessages(kinds[c], chunks[c]))])

\* lines 196-226: [verdict, file]; the file is written after the last chunk
index_folder_get_top_level_metadata(message_ids, kinds) ==
    LET done == HydrateFrom(ChunkIds(message_ids), kinds, 1,
                            [verdict |-> "ok", map |-> <<>>])
    IN  [verdict |-> done.verdict,
         file |-> IF done.verdict = "ok" THEN WrittenFile(done.map) ELSE NoFile]

HyInit ==
    /\ hashPos = 5
    /\ remoteSizes = [f \in RemoteFolderIds |-> 0]
    /\ IndexIdle
    /\ PureIdle("hy")
    /\ hyPc = "input"
    /\ \E n \in 0..MaxHyIds :
          /\ hyIds = [j \in 1..n |-> <<InboxId[1], j>>]
          /\ hyKinds \in [1..ChunkCount(n) -> HyKinds]
    /\ hyOut = [verdict |-> "none", file |-> NoFile]

HyHydrate ==
    /\ hyPc = "input"
    /\ hyOut' = index_folder_get_top_level_metadata(hyIds, hyKinds)
    /\ hyPc' = "done"
    /\ UNCHANGED <<exceptHy, hyIds, hyKinds>>

HyNext == HyHydrate

SpecHydrate == HyInit /\ [][HyNext]_vars

(***************************************************************************)
(* SpecRethread: index_folder_organize_into_conversations (indexing.py,    *)
(* lines 229-328) for one folder, on drawn states of the folder's metadata *)
(* artifact and conversation artifact: absent, left empty by an            *)
(* interrupted write, or written.                                          *)
(***************************************************************************)
MaxRtMessages == 1

\* the folder, and the name of its artifacts
RtFolderId == InboxId

RtShortcode == ShortcodeOf(_hash_id(InboxId), SHORTCODE_LENGTH_STEPS[1])

RtFiles(contents) ==
    {NoFile, OpenedFile} \cup {WrittenFile(data) : data \in contents}

\* the conversation artifacts an earlier run can have written
RtPayloads ==
    LET Emitted(shapes) == ~OrganizeRaises(ThArtifact(shapes))
    IN  {<<OrganizePayload(RtFolderId, RtShortcode, ThArtifact(shapes))>> :
            shapes \in {s \in SeqsUpTo({sh \in ThShapes : sh.cid = <<68>>}, 1) :
                            Emitted(s)}}

\* lines 229-328: [verdict, conv], the value returned ("ok" for True, "fail"
\* for False, "crash" for an exception) and the conversation artifact after
index_folder_organize_into_conversations(meta, conv) ==
    LET dir == IF conv.exists THEN DictPut(EmptyDict, RtShortcode, conv) ELSE EmptyDict
    IN  IF ~meta.exists THEN [verdict |-> "fail", conv |-> conv]     \* lines 239-244
        ELSE IF ~meta.ok THEN [verdict |-> "crash", conv |-> conv]   \* line 247
        ELSE IF ConvCheckpointed(dir, RtShortcode)
        THEN [verdict |-> "ok", conv |-> conv]                       \* lines 254-255
        ELSE IF OrganizeRaises(meta.data) THEN [verdict |-> "crash", conv |-> conv]
        ELSE [verdict |-> "ok",
              conv |-> WrittenFile(<<OrganizePayload(RtFolderId, RtShortcode,
                                                     meta.data)>>)]

RtInit ==
    /\ hashPos = 5
    /\ remoteSizes = [f \in RemoteFolderIds |-> 0]
    /\ IndexIdle
    /\ PureIdle("rt")
    /\ rtPc = "input"
    /\ rtMeta \in RtFiles({ThArtifact(shapes) : shapes \in SeqsUpTo(ThShapes, MaxRtMessages)})
    /\ rtConv \in RtFiles(RtPayloads)
    /\ rtOut = [verdict |-> "none", conv |-> rtConv]

RtOrganize ==
    /\ rtPc = "input"
    /\ rtOut' = index_folder_organize_into_conversations(rtMeta, rtConv)
    /\ rtPc' = "done"
    /\ UNCHANGED <<exceptRt, rtMeta, rtConv>>

RtNext == RtOrganize

SpecRethread == RtInit /\ [][RtNext]_vars

(***************************************************************************)
(* SpecBundles: one folder from the threading step of the index            *)
(* (indexing.py, lines 229-328) through download runs (downloading.py,     *)
(* lines 596-643, with _ensure_conversation_shortcodes, lines 512-560) to  *)
(* an export run (outputting.py, lines 314-389).  A cache directory is the *)
(* sequence of the path components under .dsed/caches.                     *)
(***************************************************************************)
MaxBdMessages == 3

MaxBdRuns == 2

\* two conversations and messages of none; a null receivedEpoch, on which
\* the threader raises when it has to compare it
BdShapes ==
    [cid : {<<67>>}, token : {ThToken12}, has : {TRUE}, epoch : {<<1000>>, <<2000>>}]
    \cup [cid : {<<68>>}, token : {ThToken12}, has : {TRUE}, epoch : {<<1000>>}]
    \cup [cid : {<<>>}, token : {ThToken12}, has : {TRUE}, epoch : {<<1000>>}]
    \cup [cid : {<<67>>}, token : {ThToken12}, has : {TRUE}, epoch : {<<>>}]

\* the digests of the ids differ within the first 8 digits, or from digit 10
BdHashPositions == {5, 10}

BdFolderShortcode == ShortcodeOf(_hash_id(InboxId), SHORTCODE_LENGTH_STEPS[1])

\* downloading.py 525-546: one turn of the loop over the conversations
EnsuredConversation(conversation, conv_id_to_shortcode) ==
    LET conversation_id == conversation.conversationId
        shortcode == DictGet(conv_id_to_shortcode, conversation_id)
        messages == conversation.messages
        msg == build_shortcode_map(MessageIdsOf(messages))
        retagged ==
            IF conversation_id # <<>> /\ conversation.conversationShortcode # shortcode
            THEN [conversation EXCEPT !.conversationShortcode = shortcode]
            ELSE conversation
        remapped ==
            IF conversation.messageShortcodes # msg.shortcode_to_id
            THEN [retagged EXCEPT !.messageShortcodes = msg.shortcode_to_id,
                                  !.messageShortcodeLength = msg.length]
            ELSE retagged
    IN  [remapped EXCEPT !.messages =
            [j \in 1..Len(messages) |->
                IF messages[j].id # <<>>
                   /\ messages[j].shortcode # DictGet(msg.id_to_shortcode, messages[j].id)
                THEN [messages[j] EXCEPT
                         !.shortcode = DictGet(msg.id_to_shortcode, messages[j].id)]
                ELSE messages[j]]]

\* the shortcodes of a download run come from the longer first step
_ensure_conversation_shortcodes_Longer(data) ==
    LET conversations == data.conversations
        conv == build_shortcode_map_LongerAlone(
                    SelectNonEmpty([g \in 1..Len(conversations) |->
                                       conversations[g].conversationId]))
        looped == [data EXCEPT !.conversations =
                      [g \in 1..Len(conversations) |->
                          EnsuredConversation(conversations[g], conv.id_to_shortcode)]]
        ensured == IF data.conversationShortcodes # conv.shortcode_to_id
                   THEN [looped EXCEPT !.conversationShortcodes = conv.shortcode_to_id,
                                       !.conversationShortcodeLength = conv.length]
                   ELSE looped
    IN  [raised |-> conv.raised
                       \/ \E g \in 1..Len(conversations) :
                             build_shortcode_map(MessageIdsOf(conversations[g].messages)).raised,
         data |-> ensured,
         changed |-> ensured # data]

\* downloading.py 512-560.  changed is set exactly where a field is given a
\* value other than the one it had; raised is the ValueError of
\* build_shortcode_map.
_ensure_conversation_shortcodes(data) ==
    LET conversations == data.conversations
        conv == build_shortcode_map(
                    SelectNonEmpty([g \in 1..Len(conversations) |->
                                       conversations[g].conversationId]))
        looped == [data EXCEPT !.conversations =
                      [g \in 1..Len(conversations) |->
                          EnsuredConversation(conversations[g], conv.id_to_shortcode)]]
        ensured == IF data.conversationShortcodes # conv.shortcode_to_id
                   THEN [looped EXCEPT !.conversationShortcodes = conv.shortcode_to_id,
                                       !.conversationShortcodeLength = conv.length]
                   ELSE looped
    IN  [raised |-> conv.raised
                       \/ \E g \in 1..Len(conversations) :
                             build_shortcode_map(MessageIdsOf(conversations[g].messages)).raised,
         data |-> ensured,
         changed |-> ensured # data]

\* downloading.py 617-620, 625-630 and outputting.py 320-325, 362-366: the
\* conversations and messages neither loop skips, in loop order
RECURSIVE VisitedMessages(_)
VisitedMessages(conversations) ==
    IF conversations = <<>> THEN <<>>
    ELSE LET conversation == Head(conversations)
             Kept(message_meta) == message_meta.id # <<>> /\ message_meta.shortcode # <<>>
             messages == SelectSeq(conversation.messages, Kept)
         IN  (IF conversation.conversationId = <<>>
                 \/ conversation.conversationShortcode = <<>>
              THEN <<>>
              ELSE [j \in 1..Len(messages) |->
                       [conversation |-> conversation, message_meta |-> messages[j]]])
             \o VisitedMessages(Tail(conversations))

\* a message directory straight under the folder's cache directory
DownloadDir_Flat(folder_shortcode, visit) ==
    <<folder_shortcode, visit.message_meta.shortcode>>

\* downloading.py 612, 621, 632: msg_dir
DownloadDir(folder_shortcode, visit) ==
    <<folder_shortcode, visit.conversation.conversationShortcode,
      visit.message_meta.shortcode>>

\* outputting.py 314, 343, 380: cache_dir
ExportCacheDir(folder_shortcode, visit) ==
    <<folder_shortcode, visit.conversation.conversationShortcode,
      visit.message_meta.shortcode>>

\* downloading.py 632-643 for the visits up to the one whose get-message
\* fails (failAt = 0: none fails): the directory is made before the request
StoredBundles(cache, visits, failAt) ==
    LET last == IF failAt = 0 THEN Len(visits) ELSE failAt
        dirs == {DownloadDir(BdFolderShortcode, visits[k]) : k \in 1..last}
        Stored(dir) ==
            SelectSeq([k \in 1..last |-> k],
                      LAMBDA k : /\ DownloadDir(BdFolderShortcode, visits[k]) = dir
                                 /\ k # failAt)
    IN  [dir \in DOMAIN cache \cup dirs |->
            (IF dir \in DOMAIN cache THEN cache[dir] ELSE <<>>)
            \o [i \in 1..Len(Stored(dir)) |-> visits[Stored(dir)[i]].message_meta.id]]

BdInit ==
    /\ hashPos \in BdHashPositions
    /\ remoteSizes = [f \in RemoteFolderIds |-> 0]
    /\ IndexIdle
    /\ PureIdle("bd")
    /\ bdPc = "input"
    /\ \E shapes \in SeqsUpTo(BdShapes, MaxBdMessages) : bdMeta = ThArtifact(shapes)
    /\ bdConv = NoFile
    /\ bdFirst = <<>>
    /\ bdCache = EmptyDict
    /\ bdRun = [runs |-> 0, result |-> "none", rewrites |-> 0]
    /\ bdOut = [result |-> "none", visited |-> <<>>, missing |-> <<>>]

\* indexing.py 257-325: the threading step of the index run
BdThread ==
    /\ bdPc = "input"
    /\ IF OrganizeRaises(bdMeta)
       THEN UNCHANGED <<bdConv, bdFirst>>
       ELSE LET payload == OrganizePayload(InboxId, BdFolderShortcode, bdMeta)
            IN  /\ bdConv' = WrittenFile(payload)
                /\ bdFirst' = payload
    /\ bdPc' = "indexed"
    /\ UNCHANGED <<exceptBd, bdMeta, bdCache, bdRun, bdOut>>

\* downloading.py 596-643 for the folder: a download run
BdDownload ==
    /\ bdPc \in {"indexed", "downloaded"}
    /\ bdRun.runs < MaxBdRuns
    /\ bdPc' = "downloaded"
    /\ IF ~bdConv.exists
       THEN /\ bdRun' = [bdRun EXCEPT !.runs = @ + 1, !.result = "fail"]
            /\ UNCHANGED <<bdConv, bdCache>>
       ELSE \E ensured \in {_ensure_conversation_shortcodes(bdConv.data)} :
               IF ensured.raised
               THEN /\ bdRun' = [bdRun EXCEPT !.runs = @ + 1, !.result = "crash"]
                    /\ UNCHANGED <<bdConv, bdCache>>
               ELSE \E visits \in {VisitedMessages(ensured.data.conversations)} :
                    \E failAt \in 0..Len(visits) :
                       /\ bdConv' = IF ensured.changed THEN WrittenFile(ensured.data)
                                    ELSE bdConv
                       /\ bdCache' = StoredBundles(bdCache, visits, failAt)
                       /\ bdRun' = [runs |-> bdRun.runs + 1,
                                    result |-> IF failAt = 0 THEN "ok" ELSE "fail",
                                    rewrites |-> bdRun.rewrites
                                                    + (IF ensured.changed THEN 1 ELSE 0)]
    /\ UNCHANGED <<exceptBd, bdMeta, bdFirst, bdOut>>

\* outputting.py 236-238, 300-389 for the folder: an export run
BdExport ==
    /\ bdPc \in {"indexed", "downloaded"}
    /\ bdPc' = "exported"
    /\ IF bdRun.runs = 0 \/ ~bdConv.exists
       THEN bdOut' = [result |-> "fail", visited |-> <<>>, missing |-> <<>>]
       ELSE \E visits \in {VisitedMessages(bdConv.data.conversations)} :
               LET dir == [k \in 1..Len(visits) |->
                              ExportCacheDir(BdFolderShortcode, visits[k])]
                   absent == {k \in 1..Len(visits) : dir[k] \notin DOMAIN bdCache}
                   stop == IF absent = {} THEN Len(visits) + 1
                           ELSE CHOOSE k \in absent : \A j \in absent : k <= j
               IN  bdOut' = [result |-> IF absent = {} THEN "ok" ELSE "fail",
                             visited |-> SubSeq(dir, 1, stop - 1),
                             missing |-> IF absent = {} THEN <<>>
                                         ELSE visits[stop].message_meta.id]
    /\ UNCHANGED <<exceptBd, bdMeta, bdConv, bdFirst, bdCache, bdRun>>

BdNext == BdThread \/ BdDownload \/ BdExport

SpecBundles == BdInit /\ [][BdNext]_vars

(***************************************************************************)
(* SpecTraversal: the four walks over the folder forest, collect_folder_   *)
(* nodes (shortcodes.py, lines 49-60), the recursion of impl_outlook_index *)
(* (index.py, lines 66-74) with its four loops (lines 82-132), and         *)
(* _collect_folders_in_order of the download (downloading.py, lines        *)
(* 463-475) and of the export (outputting.py, lines 189-201).  The folders *)
(* of a drawn forest are numbered in pre-order: folder k has the id <<k>>. *)
(***************************************************************************)
MaxTvFolders == 3

\* get-top-level-ids, sanity check, metadata, conversations
IndexStageCount == 4

\* a walk that yields a node after its children
download_collect_folders_in_order_ChildrenFirst(forest, prior) ==
    LET RECURSIVE Walk(_, _)
        Walk(nodes, names) ==
            IF nodes = <<>> THEN <<>>
            ELSE LET node == Head(nodes)
                 IN  Walk(node.children, Append(names, node.name))
                     \o <<[folder_name |-> Append(names, node.name), node |-> node]>>
                     \o Walk(Tail(nodes), names)
    IN  Walk(forest, prior)

\* downloading.py 463-475: (folder_name, node) in pre-order
download_collect_folders_in_order(forest, prior) ==
    LET RECURSIVE Walk(_, _)
        Walk(nodes, names) ==
            IF nodes = <<>> THEN <<>>
            ELSE LET node == Head(nodes)
                 IN  <<[folder_name |-> Append(names, node.name), node |-> node]>>
                     \o Walk(node.children, Append(names, node.name))
                     \o Walk(Tail(nodes), names)
    IN  Walk(forest, prior)

\* the ids of the nodes a walk yielded
NodeIds(entries) == [k \in 1..Len(entries) |-> entries[k].node.id]

TvNotRun == [shortcodes |-> <<>>, index |-> <<>>, download |-> <<>>, export |-> <<>>]

TvInit ==
    /\ hashPos = 5
    /\ remoteSizes = [f \in RemoteFolderIds |-> 0]
    /\ IndexIdle
    /\ PureIdle("tv")
    /\ tvPc = "input"
    /\ \E n \in 1..MaxTvFolders :
          \E parent \in FpPreOrders(n) :
              tvForest = FpChildren(parent, [i \in 1..n |-> <<64 + i>>], 0)
    /\ tvSeen = TvNotRun
    /\ tvStages = [s \in 1..IndexStageCount |-> <<>>]

\* index.py 45-78: the shortcodes, the checkpoint and the list of folders
TvIndexStart ==
    /\ tvPc = "input"
    /\ \E nodes \in {collect_folder_nodes(tvForest)} :
       \E folders \in {FolderList(FpCheckpoint(tvForest), <<>>)} :
          tvSeen' = [tvSeen EXCEPT
                        !.shortcodes = [k \in 1..Len(nodes) |-> nodes[k].id],
                        !.index = NodeIds(folders)]
    /\ tvForest' = FpCheckpoint(tvForest)
    /\ tvPc' = "stage"
    /\ UNCHANGED <<exceptTv, tvStages>>

\* index.py 82-134: one turn of one of the four loops; the helper returns
\* True or False
TvIndexFolder ==
    /\ tvPc = "stage"
    /\ \E folders \in {FolderList(tvForest, <<>>)} :
       \E helper_ok \in BOOLEAN :
          LET s == CHOOSE s \in 1..IndexStageCount :
                       /\ Len(tvStages[s]) < Len(folders)
                       /\ \A r \in 1..(s - 1) : Len(tvStages[r]) = Len(folders)
              node == folders[Len(tvStages[s]) + 1].node
          IN  /\ tvStages' = [tvStages EXCEPT ![s] = Append(@, node.id)]
              /\ tvPc' = IF ~helper_ok THEN "failed"
                         ELSE IF s = IndexStageCount /\ Len(tvStages[s]) + 1 = Len(folders)
                         THEN "indexed"
                         ELSE "stage"
    /\ UNCHANGED <<exceptTv, tvForest, tvSeen>>

\* downloading.py 583-596: the folders the download loops over
TvDownload ==
    /\ tvPc \in {"indexed", "failed"}
    /\ tvSeen.download = <<>>
    /\ \E folders \in {download_collect_folders_in_order(tvForest, <<>>)} :
          tvSeen' = [tvSeen EXCEPT !.download = NodeIds(folders)]
    /\ UNCHANGED <<exceptTv, tvPc, tvForest, tvStages>>

\* outputting.py 232-267: the folders the export loops over
TvExport ==
    /\ tvPc \in {"indexed", "failed"}
    /\ tvSeen.export = <<>>
    /\ \E folders \in {_collect_folders_in_order(tvForest, <<>>)} :
          tvSeen' = [tvSeen EXCEPT !.export = NodeIds(folders)]
    /\ UNCHANGED <<exceptTv, tvPc, tvForest, tvStages>>

TvNext == TvIndexStart \/ TvIndexFolder \/ TvDownload \/ TvExport

SpecTraversal == TvInit /\ [][TvNext]_vars

(***************************************************************************)
(* SpecSpinner: call_route, called again and again by one command, with    *)
(* the thread of _spinner_line beside it.  A KeyboardInterrupt can reach   *)
(* the main thread between any two of its steps.                           *)
(***************************************************************************)
MaxSpCalls == 3

\* line 54: frames = "|/-\\"
FrameCount == 4

SpResponses == {"2xx", "non2xx", "raise"}

\* lines 114-138: what call_route returns for a summary
ReturnedFor(resp) == IF resp = "2xx" THEN "summary" ELSE "None"

SpInit ==
    /\ hashPos = 5
    /\ remoteSizes = [f \in RemoteFolderIds |-> 0]
    /\ IndexIdle
    /\ PureIdle("sp")
    /\ spPc = "ready"
    /\ spJwt \in BOOLEAN
    /\ spResp = "none"
    /\ spPending = "none"
    /\ spStop = FALSE
    /\ spThread = "none"
    /\ spFrame = 0
    /\ spValue = "none"
    /\ spCalls = 0

\* lines 84-99: without a token None is returned at once; with one the Event
\* and the thread are created and the thread is started
SpCall ==
    /\ spPc \in {"ready", "returned"}
    /\ spCalls < MaxSpCalls
    /\ spCalls' = spCalls + 1
    /\ spPending' = "none"
    /\ IF ~spJwt
       THEN /\ spPc' = "returned"
            /\ spValue' = "None"
            /\ spResp' = "none"
            /\ spThread' = "none"
            /\ UNCHANGED <<spStop, spFrame>>
       ELSE /\ spPc' = "started"
            /\ spValue' = "none"
            /\ spResp' \in SpResponses
            /\ spStop' = FALSE
            /\ spThread' = "running"
            /\ spFrame' = 0
    /\ UNCHANGED <<exceptSp, spJwt>>

\* line 100: the try block is entered
SpTry ==
    /\ spPc = "started"
    /\ spPc' = "request"
    /\ UNCHANGED <<exceptSp, spJwt, spResp, spPending, spStop, spThread, spFrame,
                   spValue, spCalls>>

\* lines 101-110: the request returns and is summarized, or raises
SpRequest ==
    /\ spPc = "request"
    /\ spPc' = "finally"
    /\ spPending' = IF spResp = "raise" THEN "exception" ELSE "summary"
    /\ UNCHANGED <<exceptSp, spJwt, spResp, spStop, spThread, spFrame, spValue,
                   spCalls>>

\* line 111: stop.set()
SpStopSet ==
    /\ spPc = "finally"
    /\ spStop' = TRUE
    /\ spPc' = "joining"
    /\ UNCHANGED <<exceptSp, spJwt, spResp, spPending, spThread, spFrame, spValue,
                   spCalls>>

\* lines 112-138: t.join() returns once the thread has ended; then the
\* exception goes on, or the summary is turned into the returned value
SpJoined ==
    /\ spPc = "joining"
    /\ spThread = "exited"
    /\ IF spPending = "summary"
       THEN spPc' = "returned" /\ spValue' = ReturnedFor(spResp)
       ELSE spPc' = "raised" /\ spValue' = spPending
    /\ UNCHANGED <<exceptSp, spJwt, spResp, spPending, spStop, spThread, spFrame,
                   spCalls>>

\* a KeyboardInterrupt in the main thread: before the try block it leaves
\* call_route at once; inside the try block the finally clause runs; inside
\* the finally clause (before stop.set(), or while join waits) it leaves
\* call_route from there
SpInterrupt ==
    /\ spPc \in {"started", "request", "finally", "joining"}
    /\ IF spPc = "request"
       THEN /\ spPc' = "finally"
            /\ spPending' = "interrupt"
            /\ spValue' = spValue
       ELSE /\ spPc' = "raised"
            /\ spPending' = "interrupt"
            /\ spValue' = "interrupt"
    /\ UNCHANGED <<exceptSp, spJwt, spResp, spStop, spThread, spFrame, spCalls>>

\* line 56: while not stop.is_set()
SpinnerTest ==
    /\ spThread = "running"
    /\ spThread' = IF spStop THEN "exited" ELSE "printing"
    /\ UNCHANGED <<exceptSp, spPc, spJwt, spResp, spPending, spStop, spFrame,
                   spValue, spCalls>>

\* lines 57-59: print, sleep, i += 1; a print that raises ends the thread
SpinnerFrame ==
    /\ spThread = "printing"
    /\ \E printed \in BOOLEAN :
          IF printed
          THEN spThread' = "running" /\ spFrame' = (spFrame + 1) % FrameCount
          ELSE spThread' = "exited" /\ spFrame' = spFrame
    /\ UNCHANGED <<exceptSp, spPc, spJwt, spResp, spPending, spStop, spValue,
                   spCalls>>

\* an exception that left call_route ends the command (index.py 136-138,
\* download.py 9-11) and the process with its daemon threads; login and
\* logout change the token between two commands
SpNextCommand ==
    /\ spPc \in {"raised", "returned"}
    /\ spPc' = "ready"
    /\ spJwt' \in BOOLEAN
    /\ spResp' = "none"
    /\ spPending' = "none"
    /\ spStop' = FALSE
    /\ spThread' = "none"
    /\ spFrame' = 0
    /\ spValue' = "none"
    /\ UNCHANGED <<exceptSp, spCalls>>

SpNext ==
    \/ SpCall
    \/ SpTry
    \/ SpRequest
    \/ SpStopSet
    \/ SpJoined
    \/ SpInterrupt
    \/ SpinnerTest
    \/ SpinnerFrame
    \/ SpNextCommand

SpecSpinner == SpInit /\ [][SpNext]_vars

(***************************************************************************)
(* SpecReset: index and download commands, with and without reset, over a  *)
(* working directory given as the set of the paths that exist in it.       *)
(***************************************************************************)
MaxRsCalls == 2

JwtPath == <<".dsed", "jwt.json">>

IndexRoot == <<".dsed", "index">>

CachesRoot == <<".dsed", "caches">>

\* the index artifacts of one folder (shortcode F), and the checkpoints
IndexArtifacts ==
    { IndexRoot \o <<"folders.json">>,
      IndexRoot \o <<"shortcodes", "folders.json">>,
      IndexRoot \o <<"top-level-messages", "F.json">>,
      IndexRoot \o <<"top-level-message-metadata", "F.json">>,
      IndexRoot \o <<"conversations-organized", "F.json">> }

\* the bundle of one message in the cache tree
CacheFiles ==
    { CachesRoot \o <<"F", "C", "M", "message.json">>,
      CachesRoot \o <<"F", "C", "M", "attachments.json">> }

UnderRoot(root, path) ==
    /\ Len(path) >= Len(root)
    /\ SubSeq(path, 1, Len(root)) = root

\* a path and the directories above it
WithParents(path) == {SubSeq(path, 1, k) : k \in 1..Len(path)}

Tree(paths) == UNION {WithParents(p) : p \in paths}

\* shutil.rmtree(root)
rmtree_Parent(tree, root) ==
    {p \in tree : ~UnderRoot(SubSeq(root, 1, Len(root) - 1), p)}

rmtree(tree, root) == {p \in tree : ~UnderRoot(root, p)}

\* os.makedirs(dir)
makedirs(tree, dir) == tree \cup WithParents(dir)

\* os.path.isdir(path), for the paths of the model that name directories
isdir(tree, path) == path \in tree

\* index.py lines 17-22
IndexReset(tree) ==
    makedirs(IF isdir(tree, IndexRoot) THEN rmtree(tree, IndexRoot) ELSE tree,
             IndexRoot)

\* downloading.py lines 577-581
DownloadReset(tree) ==
    makedirs(IF isdir(tree, CachesRoot) THEN rmtree(tree, CachesRoot) ELSE tree,
             CachesRoot)

RsInit ==
    /\ hashPos = 5
    /\ remoteSizes = [f \in RemoteFolderIds |-> 0]
    /\ IndexIdle
    /\ PureIdle("rs")
    /\ \E files \in SUBSET (IndexArtifacts \cup CacheFiles \cup {JwtPath}) :
          \E dirs \in SUBSET {IndexRoot, CachesRoot} :
              rsTree = Tree(files \cup dirs)
    /\ rsBefore = rsTree
    /\ rsOp = "none"
    /\ rsResult = 0
    /\ rsCalls = 0

\* impl_outlook_index(reset): lines 17-22 with reset; without it the run
\* asks for the forest when the checkpoint is absent (lines 25-36, a request
\* only with a token, call_route.py 85-87) and writes index artifacts, up to
\* where it returns
RsIndex ==
    \E reset \in BOOLEAN :
        /\ rsBefore' = rsTree
        /\ IF reset
           THEN /\ rsOp' = "index-reset"
                /\ rsTree' = IndexReset(rsTree)
                /\ rsResult' = 0
                /\ rsCalls' = rsCalls
           ELSE /\ rsOp' = "index"
                /\ rsCalls < MaxRsCalls
                /\ \E written \in SUBSET IndexArtifacts :
                      /\ JwtPath \notin rsTree => written = {}
                      /\ rsTree' = rsTree \cup Tree(written)
                      /\ rsResult' \in IF written = IndexArtifacts THEN {0} ELSE {-1}
                /\ rsCalls' = IF JwtPath \in rsTree
                                 /\ IndexRoot \o <<"folders.json">> \notin rsTree
                              THEN rsCalls + 1 ELSE rsCalls
        /\ UNCHANGED exceptRs

\* download_all_folders(reset): lines 577-581 with reset; without it the run
\* needs the forest checkpoint (583-585), rewrites it (588), makes the cache
\* directory (594) and fetches bundles with a token
RsDownload ==
    \E reset \in BOOLEAN :
        /\ rsBefore' = rsTree
        /\ IF reset
           THEN /\ rsOp' = "download-reset"
                /\ rsTree' = DownloadReset(rsTree)
                /\ rsResult' = 0
                /\ rsCalls' = rsCalls
           ELSE /\ rsOp' = "download"
                /\ rsCalls < MaxRsCalls
                /\ IF IndexRoot \o <<"folders.json">> \notin rsTree
                   THEN /\ rsTree' = rsTree
                        /\ rsResult' = -1
                        /\ rsCalls' = rsCalls
                   ELSE \E fetched \in BOOLEAN :
                           IF fetched /\ JwtPath \in rsTree
                           THEN /\ rsTree' = makedirs(rsTree, CachesRoot) \cup Tree(CacheFiles)
                                /\ rsResult' = 0
                                /\ rsCalls' = rsCalls + 1
                           ELSE /\ rsTree' = makedirs(rsTree, CachesRoot)
                                /\ rsResult' = -1
                                /\ rsCalls' = rsCalls
        /\ UNCHANGED exceptRs

RsNext == RsIndex \/ RsDownload

SpecReset == RsInit /\ [][RsNext]_vars

(***************************************************************************)
(* SpecSafeDelete: impl_outlook_safe_delete on drawn options, answers of   *)
(* the backend and answers of the user.                                    *)
(***************************************************************************)
MaxSdMatches == 2

\* a match of the find: a message with an id, a message without one, or
\* something that is not a dict
SdMatchKinds ==
    { [dict |-> TRUE, id |-> <<65>>], [dict |-> TRUE, id |-> <<66>>],
      [dict |-> TRUE, id |-> <<>>], [dict |-> FALSE, id |-> <<>>] }

\* what call_route gives for the find request: None, an exception, data
\* that is not a dict, data whose "matches" is not a list, data without
\* "matches", and a list of matches
SdFindAnswers ==
    { [kind |-> k, matches |-> <<>>] : k \in {"none", "raise", "nondict", "nolist", "nokey"} }
    \cup { [kind |-> "matches", matches |-> ms] : ms \in SeqsUpTo(SdMatchKinds, MaxSdMatches) }

SdOptions ==
    [have_sender_and_subject : BOOLEAN, preview_count : {0, 1, 25},
     show_all : BOOLEAN, report : BOOLEAN, assume_yes : BOOLEAN, soft : BOOLEAN]

SdRequest(route, ids, soft) == [route |-> route, messageIds |-> ids, soft |-> soft]

\* call_route.py lines 85-87: nothing is sent without a token
SdSent(request) == IF sdJwt THEN Append(sdCalls, request) ELSE sdCalls

\* lines 100-103
PreviewCount(args, total) ==
    IF args.show_all THEN total
    ELSE IF args.preview_count < total THEN args.preview_count ELSE total

\* line 144: [m.get("id") for m in matches if m.get("id")]
HasId(match) == match.id # <<>>

DeleteIds(matches) ==
    LET withId == SelectSeq(matches, HasId)
    IN  [k \in 1..Len(withId) |-> withId[k].id]

\* lines 131-138: the delete goes on with --yes, or when the user says yes
Confirmed_Always(args, answer) == TRUE

Confirmed(args, answer) == args.assume_yes \/ answer = "yes"

SdFinish(res) ==
    /\ sdPc' = "done"
    /\ sdResult' = res

SdInit ==
    /\ hashPos = 5
    /\ remoteSizes = [f \in RemoteFolderIds |-> 0]
    /\ IndexIdle
    /\ PureIdle("sd")
    /\ sdPc = "input"
    /\ sdArgs \in SdOptions
    /\ sdJwt \in BOOLEAN
    /\ sdFind = [kind |-> "none", matches |-> <<>>]
    /\ sdMatches = <<>>
    /\ sdAnswer = "none"
    /\ sdCalls = <<>>
    /\ sdResult = "none"

\* lines 53-98: the options are checked, the find request is sent and its
\* answer is examined
SdFindMatches ==
    /\ sdPc = "input"
    /\ IF ~sdArgs.have_sender_and_subject \/ sdArgs.preview_count < 1
       THEN /\ SdFinish("fail")
            /\ UNCHANGED <<sdFind, sdMatches, sdCalls>>
       ELSE \E answer \in SdFindAnswers :
               /\ sdJwt \/ answer.kind = "none"
               /\ sdFind' = answer
               /\ sdCalls' = SdSent(SdRequest("find", <<>>, FALSE))
               /\ CASE answer.kind = "raise" ->
                         SdFinish("crash") /\ sdMatches' = sdMatches
                    [] answer.kind \in {"none", "nondict", "nolist"} ->
                         SdFinish("fail") /\ sdMatches' = sdMatches
                    \* line 90: data.get("matches", [])
                    [] answer.kind = "nokey" ->
                         SdFinish("ok") /\ sdMatches' = <<>>
                    [] answer.kind = "matches" ->
                         /\ sdMatches' = answer.matches
                         /\ IF answer.matches = <<>>
                            THEN SdFinish("ok")
                            ELSE sdPc' = "found" /\ sdResult' = sdResult
    /\ UNCHANGED <<exceptSd, sdArgs, sdJwt, sdAnswer>>

\* lines 100-128: the previews are printed (msg.get raises on a match that is
\* not a dict); in report mode the command ends here
SdPreview ==
    /\ sdPc = "found"
    /\ IF \E k \in 1..PreviewCount(sdArgs, Len(sdMatches)) : ~sdMatches[k].dict
       THEN SdFinish("crash")
       ELSE IF sdArgs.report
       THEN SdFinish("ok")
       ELSE sdPc' = "previewed" /\ sdResult' = sdResult
    /\ UNCHANGED <<exceptSd, sdArgs, sdJwt, sdFind, sdMatches, sdAnswer, sdCalls>>

\* lines 131-138: without --yes the user is asked; click.confirm raises
\* Abort when no answer can be read
SdConfirm ==
    /\ sdPc = "previewed"
    /\ IF sdArgs.assume_yes
       THEN /\ sdAnswer' = sdAnswer
            /\ sdPc' = "confirmed" /\ sdResult' = sdResult
       ELSE \E answer \in {"yes", "no", "abort"} :
               /\ sdAnswer' = answer
               /\ IF answer = "abort" THEN SdFinish("crash")
                  ELSE IF Confirmed(sdArgs, answer)
                  THEN sdPc' = "confirmed" /\ sdResult' = sdResult
                  ELSE SdFinish("ok")
    /\ UNCHANGED <<exceptSd, sdArgs, sdJwt, sdFind, sdMatches, sdCalls>>

\* lines 140-174: the delete request and its report
SdDelete ==
    /\ sdPc = "confirmed"
    /\ IF \E k \in 1..Len(sdMatches) : ~sdMatches[k].dict
       THEN /\ SdFinish("crash")                       \* m.get, line 144
            /\ sdCalls' = sdCalls
       ELSE /\ sdCalls' = SdSent(SdRequest("delete", DeleteIds(sdMatches), sdArgs.soft))
            /\ \E kind \in (IF sdJwt THEN {"raise", "none", "data"} ELSE {"none"}) :
                  CASE kind = "raise" -> SdFinish("crash")
                    [] kind = "none" -> SdFinish("fail")
                    [] kind = "data" -> SdFinish("ok")
    /\ UNCHANGED <<exceptSd, sdArgs, sdJwt, sdFind, sdMatches, sdAnswer>>

\* login and logout between the find and the delete change the token
SdToken ==
    /\ sdPc \in {"found", "previewed", "confirmed"}
    /\ sdJwt' = ~sdJwt
    /\ UNCHANGED <<exceptSd, sdPc, sdArgs, sdFind, sdMatches, sdAnswer, sdCalls,
                   sdResult>>

SdNext == SdFindMatches \/ SdPreview \/ SdConfirm \/ SdDelete \/ SdToken

SpecSafeDelete == SdInit /\ [][SdNext]_vars

PerFolderPhases == {"ids", "sanity", "meta", "conv"}

\* the shortcode the checkpointed forest gives the folder with this id
CheckpointedShortcode(folderId) ==
    LET nodes == collect_folder_nodes(foldersFile.data)
    IN  nodes[CHOOSE k \in 1..Len(nodes) : nodes[k].id = folderId].shortcode

RequestsOn(route, folderId) ==
    LET Wanted(r) == r.route = route /\ r.folderId = folderId
    IN  SelectSeq(calls, Wanted)

\* C1: when one folder's conversation artifact is deleted from a fully indexed
\* directory and the index is run again, that run sends no list-ids and no
\* hydrate-metadata request, and when it returns success the artifact is back
\* with the content it had before the deletion.
C1_ResumeRegenerates ==
    (resume.active /\ resume.rerun) =>
        /\ \A k \in 1..Len(calls) :
              calls[k].route \notin {"get-id-list", "hydrate-message-metadata"}
        /\ (pc = "done" /\ result = "ok") =>
              /\ IsFile(convFiles, resume.name)
              /\ convFiles[resume.name] = resume.file

\* the rerun has returned success and the regenerated artifact, which threads
\* more than one conversation, equals the deleted one
C1_Witness ==
    /\ resume.active /\ resume.rerun
    /\ pc = "done" /\ result = "ok"
    /\ IsFile(convFiles, resume.name)
    /\ convFiles[resume.name] = resume.file
    /\ resume.file.ok
    /\ Len(resume.file.data[1].conversations) > 1
    /\ Len(calls) = Len(collect_folder_nodes(foldersFile.data))

\* the count request of the k-th folder of the forest, in pre-order
C2_CountRequest(k) ==
    Request("get-folder-metadata", collect_folder_nodes(foldersFile.data)[k].id, <<>>, <<>>)

\* what a run over a fully indexed directory has sent so far
C2_OnlyCounts ==
    (startedFull /\ pc # "idle") =>
        /\ Len(calls) <= Len(collect_folder_nodes(foldersFile.data))
        /\ \A k \in 1..Len(calls) : calls[k] = C2_CountRequest(k)
        /\ (pc = "done" /\ result = "ok") =>
              Len(calls) = Len(collect_folder_nodes(foldersFile.data))

\* C2: a run started on a directory whose every folder has its three
\* artifacts sends only get-folder-metadata requests, at most one per folder
\* and in folder order, exactly one per folder once it has returned success,
\* and no step of it changes an id-list, metadata or conversation artifact.
C2_SkipOnResume ==
    /\ []C2_OnlyCounts
    /\ [][(startedFull /\ startedFull') =>
             UNCHANGED <<idsFiles, metaFiles, convFiles>>]_vars

\* a run over a fully indexed directory has returned success after one count
\* request for each of the three folders
C2_Witness ==
    /\ startedFull
    /\ pc = "done" /\ result = "ok"
    /\ Len(calls) = 3
    /\ \A k \in 1..3 : calls[k].route = "get-folder-metadata"

\* C3: after a run ended by an interrupt, every per-folder artifact that
\* exists holds the complete content of its step.  The code opens the file
\* for writing and writes afterwards, so this fails.
C3_InterruptLeavesComplete ==
    (pc = "done" /\ failedStep.phase = "interrupt") =>
        \A dir \in {idsFiles, metaFiles, convFiles} :
            \A name \in DOMAIN dir : dir[name].ok

\* a reported failure has ended the run
C4_Returned ==
    failedStep.phase \in PerFolderPhases =>
        /\ pc = "done"
        /\ result \in {"fail", "crash"}

\* C4: once a per-folder step has reported failure the run has returned, with
\* failure, and from then on that run sends no request and writes no file;
\* the failing step itself writes nothing.
C4_FailFast ==
    /\ []C4_Returned
    /\ [][(failedStep'.phase \in PerFolderPhases /\ failedStep # failedStep') =>
             (writes' = writes /\ foldersFile' = foldersFile
              /\ shortcodesFile' = shortcodesFile)]_vars
    /\ [][(failedStep.phase \in PerFolderPhases /\ failedStep' = failedStep) =>
             (calls' = calls /\ writes' = writes /\ fileVars' = fileVars)]_vars

\* the sanity check of the first folder returned False: the run is over with
\* failure, and no metadata was hydrated for any folder
C4_Witness ==
    /\ failedStep = [phase |-> "sanity", folder |-> InboxId]
    /\ pc = "done" /\ result = "fail"
    /\ calls # <<>>
    /\ calls[Len(calls)].route = "get-folder-metadata"
    /\ metaFiles = EmptyDict
    /\ Len(collect_folder_nodes(foldersFile.data)) > 1

C6_HydrateRequests(ids) ==
    LET Wanted(r) == r.route = "hydrate-message-metadata" /\ r.ids[1] \in Range(ids)
    IN  SelectSeq(calls, Wanted)

\* the ids of a sequence of requests, one after the other
RECURSIVE C6_Concat(_)
C6_Concat(reqs) == IF reqs = <<>> THEN <<>> ELSE Head(reqs).ids \o C6_Concat(Tail(reqs))

\* C6: when the metadata artifact of a folder is opened for writing, the
\* hydrate requests sent for that folder are ceil(n / 20) requests of at most
\* 20 ids each which, in order, make up the stored id list exactly; before
\* that they are a prefix of these; and a failed hydration leaves no metadata
\* artifact for its folder.
C6_Batching ==
    /\ \A k \in 1..Len(writes) :
          writes[k].dir = "meta" =>
              LET ids == idsFiles[writes[k].name].data
                  reqs == C6_HydrateRequests(ids)
              IN  /\ Len(reqs) = (Len(ids) + 19) \div 20
                  /\ \A c \in 1..Len(reqs) : Len(reqs[c].ids) <= 20
                  /\ \A c \in 1..(Len(reqs) - 1) : Len(reqs[c].ids) = 20
                  /\ C6_Concat(reqs) = ids
    /\ pc = "meta_chunk" =>
          LET reqs == C6_HydrateRequests(local.message_ids)
              sent == C6_Concat(reqs)
          IN  /\ \A c \in 1..Len(reqs) : Len(reqs[c].ids) <= 20
              /\ Len(sent) <= Len(local.message_ids)
              /\ sent = SubSeq(local.message_ids, 1, Len(sent))
    /\ failedStep.phase = "meta" /\ failedStep.folder # <<>> /\ foldersFile.ok =>
          ~IsFile(metaFiles, CheckpointedShortcode(failedStep.folder))

\* the metadata of a folder of more than two full batches has been written
C6_Witness ==
    \E k \in 1..Len(writes) :
        /\ writes[k].dir = "meta" /\ writes[k].what = "write"
        /\ Len(idsFiles[writes[k].name].data) > 2 * 20
        /\ Len(C6_HydrateRequests(idsFiles[writes[k].name].data)) = 3
        /\ metaFiles[writes[k].name].ok

\* C7: for a stored id list without repeats, of n ids, and a reported integer
\* total t, the sanity check passes exactly when |n - t| <= 100, whichever of
\* the two is the larger.
C7_SanityThreshold ==
    (/\ snPc = "checked"
     /\ FileAt(snDir, SnNode.shortcode).ok
     /\ Cardinality(Range(snDir[SnNode.shortcode].data)) = Len(snDir[SnNode.shortcode].data)
     /\ snResp.kind = "int") =>
        LET n == Len(snDir[SnNode.shortcode].data)
            t == snResp.total
        IN  /\ snVerdict \in {"pass", "fail"}
            /\ snVerdict = "pass" <=> (n - t <= 100 /\ t - n <= 100)

\* a list that exceeds the reported total by exactly 100 has passed
C7_Witness ==
    /\ snPc = "checked"
    /\ FileAt(snDir, SnNode.shortcode).ok
    /\ snResp.kind = "int"
    /\ Len(snDir[SnNode.shortcode].data) = snResp.total + 100
    /\ snVerdict = "pass"

\* C8: a stored id list in which some id occurs more than once never passes
\* the sanity check, and fails it whenever the remote reported a total,
\* whatever that total is.
C8_DuplicatesFail ==
    (/\ snPc = "checked"
     /\ FileAt(snDir, SnNode.shortcode).ok
     /\ Cardinality({snDir[SnNode.shortcode].data[k] :
                        k \in 1..Len(snDir[SnNode.shortcode].data)})
           < Len(snDir[SnNode.shortcode].data)) =>
        /\ snVerdict # "pass"
        /\ snResp.kind \in {"int", "float"} => snVerdict = "fail"

\* a list with a repeated id whose length equals the reported total has failed
C8_Witness ==
    /\ snPc = "checked"
    /\ FileAt(snDir, SnNode.shortcode).ok
    /\ Len(snDir[SnNode.shortcode].data) > 2
    /\ snDir[SnNode.shortcode].data[1] =
          snDir[SnNode.shortcode].data[Len(snDir[SnNode.shortcode].data)]
    /\ snResp = [kind |-> "int", total |-> Len(snDir[SnNode.shortcode].data)]
    /\ snVerdict = "fail"

C9_Injective(map) == \A a, b \in DOMAIN map : a # b => map[a] # map[b]

\* C9: two invocations of build_shortcode_map on the same non-empty ids, in
\* any order and with or without repeats, give the same result, and the
\* id-to-shortcode map of a result gives distinct ids distinct shortcodes.
C9_Deterministic ==
    /\ C9_Injective(scResult1.id_to_shortcode)
    /\ C9_Injective(scResult2.id_to_shortcode)
    /\ scPc = "built2" => scResult1 = scResult2

\* the second invocation permuted and repeated the ids of the first, and the
\* shortcodes had to be lengthened to tell the ids apart
C9_Witness ==
    /\ scPc = "built2"
    /\ ~scResult2.raised
    /\ Cardinality(DOMAIN scResult2.id_to_shortcode) > 1
    /\ Len(scValues2) > Cardinality(DOMAIN scResult2.id_to_shortcode)
    /\ Len(scValues1) = Cardinality(DOMAIN scResult1.id_to_shortcode)
    /\ Head(scValues1) # Head(scValues2)
    /\ scResult2.length > SHORTCODE_LENGTH_STEPS[1]

\* C10: the two maps of a result are inverse to each other, their domain is
\* the set of the non-empty ids of the input, and an input without a
\* non-empty id gives two empty maps and length 0.
C10_MutuallyInverse ==
    (scPc # "input" /\ ~scResult1.raised) =>
        LET ids == {scValues1[k] : k \in 1..Len(scValues1)} \ {<<>>}
            i2s == scResult1.id_to_shortcode
            s2i == scResult1.shortcode_to_id
        IN  /\ DOMAIN i2s = ids
            /\ DOMAIN s2i = {i2s[id] : id \in ids}
            /\ \A id \in ids : s2i[i2s[id]] = id
            /\ \A sc \in DOMAIN s2i : i2s[s2i[sc]] = sc
            /\ ids = {} => (i2s = EmptyDict /\ s2i = EmptyDict /\ scResult1.length = 0)
            /\ ids # {} => scResult1.length > 0

\* the input held an empty id and the same non-empty id twice
C10_Witness ==
    /\ scPc = "built1"
    /\ ~scResult1.raised
    /\ \E k \in 1..Len(scValues1) : scValues1[k] = <<>>
    /\ Cardinality(DOMAIN scResult1.id_to_shortcode) = 1
    /\ Len(scValues1) = 3
    /\ \A id \in DOMAIN scResult1.id_to_shortcode :
          scResult1.shortcode_to_id[scResult1.id_to_shortcode[id]] = id

\* -------------------------------------------------------------------------
\* The order of a message among those of its conversation, as the claims
\* state it: token bytes, then receivedEpoch, then id.
\* -------------------------------------------------------------------------
ThKeyOf(m) ==
    [bytes |-> _decode_conversation_index(m.conversationIndex),
     epoch |-> IF "receivedEpoch" \in DOMAIN m THEN m.receivedEpoch ELSE <<0>>,
     id |-> m.id]

ThKeyLess(a, b) ==
    IF a.bytes # b.bytes THEN LexLess(a.bytes, b.bytes)
    ELSE IF a.epoch # b.epoch
         THEN a.epoch # <<>> /\ b.epoch # <<>> /\ a.epoch[1] < b.epoch[1]
         ELSE LexLess(a.id, b.id)

ThEmitted == thPc = "done" /\ ~thOut.raised

\* C11: in every emitted conversation each message's key (decoded token
\* bytes compared lexicographically, then receivedEpoch, then id) is at most
\* the key of every message before it; two messages A and B with the token
\* bytes 01 02 and 01 03 are emitted as [B, A].
C11_LatestFirst ==
    /\ ThEmitted =>
          \A c \in 1..Len(thOut.conversations) :
              LET messages == thOut.conversations[c].messages
              IN  \A i, j \in 1..Len(messages) :
                      i < j => \/ ThKeyLess(ThKeyOf(messages[j]), ThKeyOf(messages[i]))
                               \/ ThKeyOf(messages[j]) = ThKeyOf(messages[i])
    /\ ( /\ thPc = "done"
         /\ Len(thMeta) = 2
         /\ thMeta[1].v.conversationId = thMeta[2].v.conversationId
         /\ thMeta[1].v.conversationId # <<>>
         /\ thMeta[1].v.conversationIndex = ThToken12
         /\ thMeta[2].v.conversationIndex = ThToken13 )
       => /\ ~thOut.raised
          /\ Len(thOut.conversations) = 1
          /\ [j \in 1..2 |-> thOut.conversations[1].messages[j].id]
                = <<thMeta[2].k, thMeta[1].k>>

C11_Witness ==
    /\ ThEmitted
    /\ \E c \in 1..Len(thOut.conversations) :
          LET messages == thOut.conversations[c].messages
          IN  /\ Len(messages) = 3
              /\ ThKeyOf(messages[1]).bytes = <<1, 3>>
              /\ ThKeyOf(messages[2]).bytes = <<1, 2>>
              /\ ThKeyOf(messages[3]).bytes = <<1, 2>>
              /\ ThKeyOf(messages[2]).epoch # ThKeyOf(messages[3]).epoch

\* the receivedEpoch of a conversation's first message: <<n>>, or <<>> when
\* the field is null or absent
ThFirstEpoch(conversation) ==
    LET first == conversation.messages[1]
    IN  IF "receivedEpoch" \in DOMAIN first THEN first.receivedEpoch ELSE <<>>

\* C12: whenever the order inside every conversation can be established,
\* threading succeeds, also when the first message of a conversation has a
\* null or absent receivedEpoch; the conversations are emitted by
\* non-increasing receivedEpoch of their first message, those without one
\* after all those with one.
C12_MissingEpochsLast ==
    ( /\ thPc = "done"
      /\ LET conversation_groups == GroupByConversation(thMeta)
         IN  \A g \in 1..Len(conversation_groups) :
                 ~InnerSortRaises(conversation_groups[g].v) )
    => /\ ~thOut.raised
       /\ \A c, d \in 1..Len(thOut.conversations) :
             LET ec == ThFirstEpoch(thOut.conversations[c])
                 ed == ThFirstEpoch(thOut.conversations[d])
             IN  c < d => /\ ec = <<>> => ed = <<>>
                          /\ (ec # <<>> /\ ed # <<>>) => ec[1] >= ed[1]

\* C13: for every input, _safe_filename returns a non-empty name that is
\* not "." or "..", does not end in a space or a dot, has no reserved device
\* name before its first ".", and holds no control character and none of
\* < > : " / \ | ? *; applied to its own result it returns it unchanged.
C13_SafeNamingIdempotent ==
    /\ nmPc \in {"safe", "again", "truncated"} =>
          /\ nmOnce # <<>>
          /\ nmOnce \notin {<<46>>, <<46, 46>>}
          /\ nmOnce[Len(nmOnce)] \notin {32, 46}
          /\ raw_base(nmOnce) \notin WIN_RESERVED
          /\ \A j \in 1..Len(nmOnce) :
                ~(nmOnce[j] <= 31 \/ nmOnce[j] = 127)
                /\ nmOnce[j] \notin {60, 62, 58, 34, 47, 92, 124, 63, 42}
    /\ nmPc = "again" => nmTwice = nmOnce

\* C14: the string _truncate_subject returns is no longer than the limit; a
\* string within the limit is returned unchanged; when characters were
\* dropped the result is the kept prefix followed by "...(N more)", N being
\* the input length minus the length of the kept prefix.
C14_TruncationWithinLimit ==
    nmPc = "truncated" =>
        /\ Len(nmTrunc) <= nmLimit
        /\ Len(nmOnce) <= nmLimit => nmTrunc = nmOnce
        /\ Len(nmOnce) > nmLimit =>
              \E kept \in 0..nmLimit :
                  nmTrunc = SubSeq(nmOnce, 1, kept) \o <<46, 46, 46, 40>>
                                \o Decimal(Len(nmOnce) - kept)
                                \o <<32, 109, 111, 114, 101, 41>>

\* C18: a run that finds no forest checkpoint and asks the remote for the
\* folder tree either ends there with a failure or goes on with the forest
\* the remote holds; no empty forest is substituted, none is persisted.
C18_MalformedForestFatal ==
    /\ [][ (pc = "folders" /\ ~foldersFile.exists) =>
              \/ pc' = "done" /\ result' \in {"fail", "crash"}
              \/ FolderIdsOf(local'.folder_data) = FolderIdsOf(RemoteForest) ]_vars
    /\ [](foldersFile.ok => foldersFile.data # <<>>)

\* C19: a count response with a success status whose body or counts is not
\* an object, or whose totalItemCount is not an integer, makes the sanity
\* check return failure: it neither passes nor uses the value.
C19_MalformedCountFatal ==
    (snPc = "checked" /\ snResp.kind \in {"nondict", "float"}) => snVerdict = "fail"

\* C20: no step of an index run changes or removes a conversation artifact
\* that exists, whatever the folder's metadata artifact holds; the only
\* conversation file a step changes is the one the run itself has just
\* created and is writing.
C20_NeverRecomputed ==
    [][ pc \notin {"idle", "done"} =>
            \A name \in DOMAIN convFiles :
                \/ pc = "conv_write" /\ name = CurrentNode.shortcode
                \/ /\ name \in DOMAIN convFiles'
                   /\ convFiles'[name] = convFiles[name] ]_vars

\* a run has returned success over a folder whose metadata artifact changed
\* after it was threaded: the conversation artifact is not what threading the
\* current metadata gives
C20_Witness ==
    /\ pc = "done" /\ result = "ok"
    /\ Len(calls) > 0
    /\ \E name \in DOMAIN convFiles :
          /\ convFiles[name].ok
          /\ FileAt(metaFiles, name).ok
          /\ ~OrganizeRaises(metaFiles[name].data)
          /\ convFiles[name].data[1].conversations
                # OrganizePayload(convFiles[name].data[1].folderId, name,
                                  metaFiles[name].data).conversations

\* the file attachments a bundle's manifest (files_map.json) lists
ManifestFiles(bundle) ==
    {bundle.files_map[k].attachmentId : k \in
        {j \in DOMAIN bundle.files_map :
            bundle.files_map[j].attachmentType = "fileAttachment"}}

\* C15: in a download run a failed remote call for a message (get-message,
\* get-attachments, get-attachment detail, attachment binary, item binary)
\* makes the run end in failure with no call for a later message, and a
\* download run that reports success has a payload file for every file
\* attachment its manifests list.
C15_DownloadHaltsOnFirstError ==
    arRun.cmd = "download" =>
        /\ \A i \in DOMAIN arCalls :
              arCalls[i].outcome # "ok" =>
                  /\ arPc = "done"
                  /\ arRun.result \in {"fail", "crash"}
                  /\ \A j \in DOMAIN arCalls : j > i => arCalls[j].msg = arCalls[i].msg
        /\ (arPc = "done" /\ arRun.result = "ok") =>
              \A n \in DOMAIN arDir.bundles :
                  ManifestFiles(arDir.bundles[n]) \subseteq arDir.bundles[n].payloads

OutputDirectoryKinds == {"folder", "conversation", "message"}

\* C16: without a usable credential (no token file, or a token the backend
\* answers 401 to) a non-reset index run, a download run and an export run
\* return failure, and the export run writes no folder, conversation or
\* message directory.
C16_NoCredentialAborts ==
    /\ [][(pc \notin {"idle", "done"} /\ pc' = "done" /\ ~jwt) => result' # "ok"]_vars
    /\ []((arPc = "done" /\ ~arRun.cred) =>
            /\ arRun.result # "ok"
            /\ arRun.cmd = "export" =>
                  \A path \in arRun.wrote : path.kind \notin OutputDirectoryKinds)

MissingPrerequisites == {"forest", "caches", "conversations", "bundle"}

\* C17: hydration of a folder with neither metadata nor id-list artifact and
\* threading of a folder without metadata artifact fail; a download run does
\* not succeed without the forest and every folder's conversation artifact,
\* nor an export run without these, the cache root and every message's
\* bundle; the step that finds the prerequisite missing returns failure,
\* sends no request and creates nothing.
C17_MissingPrerequisitesFatal ==
    /\ [][( \/ /\ pc = "meta"
               /\ ~IsFile(_resolve_index_file(metaFiles, CurrentNode.id,
                                              CurrentNode.shortcode),
                          CurrentNode.shortcode)
               /\ ~IsFile(_resolve_index_file(idsFiles, CurrentNode.id,
                                              CurrentNode.shortcode),
                          CurrentNode.shortcode)
            \/ /\ pc = "conv"
               /\ ~IsFile(_resolve_index_file(metaFiles, CurrentNode.id,
                                              CurrentNode.shortcode),
                          CurrentNode.shortcode) ) =>
            /\ pc' = "done"
            /\ result' = "fail"
            /\ calls' = calls
            /\ writes' = writes ]_vars
    /\ []((arPc = "done" /\ arRun.result = "ok") =>
            /\ arDir.forest
            /\ \A f \in 1..Len(arBox) : f \in arDir.convs
            /\ arRun.cmd = "export" =>
                  /\ Path("cache_root", 0, 0, 0) \in arDir.cache
                  /\ \A f \in 1..Len(arBox) : \A c \in 1..Len(arBox[f]) :
                        \A m \in 1..Len(arBox[f][c]) :
                            Path("bundle", f, c, m) \in arDir.cache)
    /\ []((arPc = "done" /\ arRun.why \in MissingPrerequisites) =>
            /\ arRun.result = "fail"
            /\ arRun.sent = 0
            /\ arRun.made = {})

\* the digest prefixes of the given length tell the ids apart
PrefixesDistinct(ids, length) ==
    \A a, b \in ids :
        a # b => SubSeq(_hash_id(a), 1, length) # SubSeq(_hash_id(b), 1, length)

\* C25: build_shortcode_map raises exactly when two distinct ids share the
\* whole 64-digit digest; otherwise the length it returns is the first of
\* 8, 12, 16, 20, 24, 32, 40, 64 at which the digest prefixes of the distinct
\* ids differ pairwise, and the shortcode of every id is its digest prefix of
\* that length between the two delimiters.
C25_ShortestLength ==
    (scPc # "input" /\ EffectiveIds(scValues1) # {}) =>
        LET ids == EffectiveIds(scValues1)
            steps == SHORTCODE_LENGTH_STEPS
        IN  /\ scResult1.raised <=> ~PrefixesDistinct(ids, 64)
            /\ ~scResult1.raised =>
                  /\ \E k \in 1..Len(steps) :
                        /\ scResult1.length = steps[k]
                        /\ PrefixesDistinct(ids, steps[k])
                        /\ \A j \in 1..(k - 1) : ~PrefixesDistinct(ids, steps[j])
                  /\ \A id \in ids :
                        scResult1.id_to_shortcode[id] =
                            <<Underscore, Underscore>>
                                \o SubSeq(_hash_id(id), 1, scResult1.length)
                                \o <<Underscore, Underscore>>

\* an invocation that had to go to the sixth length, 32
C25_Witness ==
    /\ scPc = "built1"
    /\ ~scResult1.raised
    /\ scResult1.length = 32
    /\ Cardinality(EffectiveIds(scValues1)) = 2

\* C26: when the id list grows, the chosen length does not get shorter, and
\* when it stays the same every id of the smaller list keeps its shortcode.
C26_OnlyLengthen ==
    (scPc = "grown" /\ ~scResult1.raised /\ ~scResult2.raised) =>
        /\ scResult2.length >= scResult1.length
        /\ scResult2.length = scResult1.length =>
              \A id \in EffectiveIds(scValues1) :
                  scResult2.id_to_shortcode[id] = scResult1.id_to_shortcode[id]

\* an id was added without a new collision, and another one forced a longer
\* length on the ids that were there
C26_WitnessSame ==
    /\ scPc = "grown"
    /\ ~scResult1.raised /\ ~scResult2.raised
    /\ Cardinality(EffectiveIds(scValues2)) > Cardinality(EffectiveIds(scValues1))
    /\ Cardinality(EffectiveIds(scValues1)) > 0
    /\ scResult2.length = scResult1.length

C26_Witness ==
    /\ scPc = "grown"
    /\ ~scResult1.raised /\ ~scResult2.raised
    /\ Cardinality(EffectiveIds(scValues1)) = 2
    /\ scResult1.length = 8
    /\ scResult2.length = 12

\* where an entry of the metadata artifact occurs in the emitted
\* conversations: <<conversation, position>>; the shortcode is the one field
\* threading sets
ThOccurrences(meta) ==
    {<<c, j>> \in (1..Len(thOut.conversations)) \X (1..MaxThMessages) :
        /\ j <= Len(thOut.conversations[c].messages)
        /\ [thOut.conversations[c].messages[j] EXCEPT !.shortcode = <<>>] = meta}

\* C29: in an emitted artifact an entry with a non-empty conversationId
\* occurs exactly once, in a conversation carrying its conversationId; an
\* entry without one occurs nowhere; every message of a conversation is an
\* entry of the metadata; no conversation is empty and no conversationId is
\* that of two conversations.
C29_ThreadingPartitions ==
    ThEmitted =>
        LET conversations == thOut.conversations
        IN  /\ \A e \in 1..Len(thMeta) :
                  LET meta == thMeta[e].v
                  IN  IF meta.conversationId = <<>>
                      THEN ThOccurrences(meta) = {}
                      ELSE /\ Cardinality(ThOccurrences(meta)) = 1
                           /\ \A o \in ThOccurrences(meta) :
                                 conversations[o[1]].conversationId = meta.conversationId
            /\ \A c \in 1..Len(conversations) :
                  /\ conversations[c].messages # <<>>
                  /\ \A j \in 1..Len(conversations[c].messages) :
                        \E e \in 1..Len(thMeta) :
                            <<c, j>> \in ThOccurrences(thMeta[e].v)
            /\ \A c, d \in 1..Len(conversations) :
                  c # d => conversations[c].conversationId # conversations[d].conversationId

\* two messages of one conversation and one without a conversationId
C29_Witness ==
    /\ ThEmitted
    /\ Len(thMeta) = 3
    /\ Len(thOut.conversations) = 1
    /\ Len(thOut.conversations[1].messages) = 2
    /\ \E e \in 1..3 : thMeta[e].v.conversationId = <<>>

\* three messages in two conversations
C29_WitnessTwo ==
    /\ ThEmitted
    /\ Len(thMeta) = 3
    /\ Len(thOut.conversations) = 2

\* the messages of a conversation artifact's payload, conversation by
\* conversation
ArtifactMessages(payload) ==
    UNION { {payload.conversations[c].messages[j] :
                j \in 1..Len(payload.conversations[c].messages)} :
            c \in 1..Len(payload.conversations) }

\* the conversations of a payload that carry the conversationId
ConversationsOf(payload, cid) ==
    {c \in 1..Len(payload.conversations) :
        payload.conversations[c].conversationId = cid}

\* C21: a conversation artifact that a step writes holds only entries of the
\* metadata artifact of the same folder, and one conversation for each
\* conversationId of that metadata; every message of a conversation artifact
\* is a message of the artifact's own folder, so a conversationId that two
\* folders share gives one conversation in each artifact.
C21_FoldersIndependent ==
    /\ [][ \A name \in DOMAIN convFiles' :
              (convFiles'[name].ok /\ FileAt(convFiles, name) # convFiles'[name]) =>
                  LET payload == convFiles'[name].data[1]
                      metadata == FileAt(metaFiles, name).data
                  IN  /\ \A m \in ArtifactMessages(payload) :
                            \E e \in 1..Len(metadata) :
                                /\ metadata[e].k = m.id
                                /\ metadata[e].v = [m EXCEPT !.shortcode = <<>>]
                      /\ \A e \in 1..Len(metadata) :
                            metadata[e].v.conversationId # <<>> =>
                                Cardinality(ConversationsOf(payload,
                                    metadata[e].v.conversationId)) = 1 ]_vars
    /\ [](\A name \in DOMAIN convFiles :
              convFiles[name].ok =>
                  LET payload == convFiles[name].data[1]
                  IN  /\ payload.folderShortcode = name
                      /\ \A m \in ArtifactMessages(payload) :
                            m.id[1] = payload.folderId[1])

\* the artifacts of two folders each hold a conversation with the same
\* conversationId, with messages of the own folder
C21_Witness ==
    \E a, b \in DOMAIN convFiles :
        /\ a # b
        /\ convFiles[a].ok /\ convFiles[b].ok
        /\ \E c \in 1..Len(convFiles[a].data[1].conversations) :
              /\ Len(convFiles[a].data[1].conversations[c].messages) >= 2
              /\ ConversationsOf(convFiles[b].data[1],
                    convFiles[a].data[1].conversations[c].conversationId) # {}

\* a step of an index run sends the get-folders request
GetFoldersSent ==
    /\ Len(calls') = Len(calls) + 1
    /\ calls'[Len(calls')].route = "get-folders"

\* C27: an index run requests the folder tree only at its start and only
\* while the forest checkpoint is absent, and then it does (given a
\* credential, and unless it is interrupted first); no step of a run removes
\* the checkpoint, so the tree is not requested again; a run that finds the
\* checkpoint writes back the forest it has read, with the same ids, names,
\* child order and shortcodes; and after a run that started over a complete
\* index of a mailbox with folders, however it ended, the checkpoint holds
\* that forest.
C27_FolderTreeFetchedOnce ==
    /\ [][ /\ GetFoldersSent => (pc = "folders" /\ ~foldersFile.exists)
           /\ ( /\ pc = "folders" /\ ~foldersFile.exists /\ jwt
                /\ failedStep'.phase # "interrupt" ) => GetFoldersSent ]_vars
    /\ [][ (pc \notin {"idle", "done"} /\ foldersFile.exists) =>
               foldersFile'.exists ]_vars
    /\ [][ (pc = "folders" /\ foldersFile.ok /\ pc' = "sc_open") =>
               local'.folder_data = foldersFile.data ]_vars
    /\ [][ (foldersFile' # foldersFile /\ foldersFile'.ok) =>
               (pc = "ff_write" /\ foldersFile'.data = local.folder_data) ]_vars
    /\ [][ (pc \in {"sc_open", "sc_write", "ff_open"} /\ pc' \notin {"idle", "done"}) =>
               local'.folder_data = local.folder_data ]_vars
    /\ []((pc \in {"idle", "done"} /\ startedFull /\ DOMAIN idsFiles # {}) =>
              (foldersFile.ok /\ foldersFile.data # <<>>))

\* the positions <<folder, conversation, message>> of the mailbox, and the
\* order in which the loops of a download visit them
ArPositions ==
    UNION { UNION { {<<f, c, m>> : m \in 1..Len(arBox[f][c])} :
                    c \in 1..Len(arBox[f]) } :
            f \in 1..Len(arBox) }

ArVisitedBefore(p, q) ==
    \/ p[1] < q[1]
    \/ p[1] = q[1] /\ p[2] < q[2]
    \/ p[1] = q[1] /\ p[2] = q[2] /\ p[3] < q[3]

\* the messages of the mailbox in that order
ArMessagesInOrder ==
    [r \in 1..Cardinality(ArPositions) |->
        LET p == CHOOSE q \in ArPositions :
                    Cardinality({u \in ArPositions : ArVisitedBefore(u, q)}) = r - 1
        IN  arBox[p[1]][p[2]][p[3]]]

\* the messages the get-message calls of the running command name, in order
GetMessageCalls ==
    LET IsGetMessage(call) == call.route = "get-message"
        got == SelectSeq(arCalls, IsGetMessage)
    IN  [k \in 1..Len(got) |-> got[k].msg]

\* C22: the get-message calls of a download run name the messages of the
\* mailbox in the order folder, conversation, message, one call each, from
\* the first message on; a run that returns success has named every message,
\* a run that is still going every message before its position, and a run
\* that failed at a message that one last; bundles left by an earlier run
\* change nothing of this.
C22_NeverSkipsBundles ==
    arRun.cmd = "download" =>
        LET asked == GetMessageCalls
            all == ArMessagesInOrder
            here == <<arRun.f, arRun.c, arRun.m>>
            before == Cardinality({u \in ArPositions : ArVisitedBefore(u, here)})
        IN  /\ Len(asked) <= Len(all)
            /\ asked = SubSeq(all, 1, Len(asked))
            /\ (arPc = "done" /\ arRun.result = "ok") => asked = all
            /\ arPc \in {"folder", "conversation", "message"} => Len(asked) = before
            /\ (arPc = "done" /\ arRun.why = "message") => Len(asked) = before + 1

\* a second download run has asked for a message and is about to ask for
\* the next one, whose bundle an earlier run left in the cache
C22_Witness ==
    /\ arRun.cmd = "download"
    /\ arRun.runs = 2
    /\ arPc = "message"
    /\ Len(GetMessageCalls) >= 1
    /\ arBox[arRun.f][arRun.c][arRun.m] \in DOMAIN arDir.bundles
    /\ arDir.bundles[arBox[arRun.f][arRun.c][arRun.m]].message

\* a second download run returns success over a cache that held bundles
C22_WitnessDone ==
    /\ arRun.cmd = "download"
    /\ arRun.runs = 2
    /\ arPc = "done" /\ arRun.result = "ok"
    /\ Len(GetMessageCalls) = 3

\* the number a string of decimal digits spells, -1 for any other string
DecimalValue(text) ==
    LET RECURSIVE Fold(_, _)
        Fold(i, acc) ==
            IF i > Len(text) THEN acc
            ELSE IF text[i] \notin 48..57 THEN -1
            ELSE Fold(i + 1, acc * 10 + (text[i] - 48))
    IN  IF text = <<>> THEN -1 ELSE Fold(1, 0)

\* a is before b in the order of strings (code point by code point)
LexBefore(a, b) ==
    \E i \in 1..(Len(b)) :
        /\ i <= Len(a) + 1
        /\ \A j \in 1..(i - 1) : a[j] = b[j]
        /\ (i = Len(a) + 1 \/ a[i] < b[i])

\* C23: with N conversations (or messages) the prefix at position k is "__",
\* the ordinal k in decimal with zeros on the left up to the width
\* max(2, number of digits of N), and "__"; the prefixes are pairwise
\* distinct, of one width, and ordered as strings the way the positions are.
C23_OrdinalPrefixes ==
    opPc = "done" =>
        LET width == IF opTotal < 100 THEN 2 ELSE IF opTotal < 1000 THEN 3 ELSE 4
            Ordinal(k) == SubSeq(opPrefixes[k], 3, Len(opPrefixes[k]) - 2)
        IN  /\ Len(opPrefixes) = opTotal
            /\ \A k \in 1..opTotal :
                  /\ Len(opPrefixes[k]) = width + 4
                  /\ SubSeq(opPrefixes[k], 1, 2) = <<Underscore, Underscore>>
                  /\ SubSeq(opPrefixes[k], width + 3, width + 4)
                        = <<Underscore, Underscore>>
                  /\ DecimalValue(Ordinal(k)) = k
            /\ \A i, j \in 1..opTotal :
                  /\ i # j => opPrefixes[i] # opPrefixes[j]
                  /\ i < j <=> LexBefore(opPrefixes[i], opPrefixes[j])

\* a hundred conversations: "__009__" comes before "__010__" and "__100__"
C23_Witness ==
    /\ opPc = "done"
    /\ opTotal = 100
    /\ opPrefixes[9] = <<95, 95, 48, 48, 57, 95, 95>>
    /\ opPrefixes[100] = <<95, 95, 49, 48, 48, 95, 95>>

\* the folders from a root down to the folder with the id, in a forest that
\* holds it
RECURSIVE FolderChain(_, _)
FolderChain(forest, id) ==
    IF forest = <<>> THEN <<>>
    ELSE IF Head(forest).id = id THEN <<Head(forest)>>
    ELSE LET below == FolderChain(Head(forest).children, id)
         IN  IF below # <<>> THEN <<Head(forest)>> \o below
             ELSE FolderChain(Tail(forest), id)

\* the parts of a path between its separators
PathParts(path) ==
    LET IsSeparator(i) == path[i] = 47
        cuts == <<0>> \o SelectSeq([i \in 1..Len(path) |-> i], IsSeparator)
                     \o <<Len(path) + 1>>
    IN  [k \in 1..(Len(cuts) - 1) |-> SubSeq(path, cuts[k] + 1, cuts[k + 1] - 1)]

C28_HydrationComplete ==
    hyPc = "done" =>
        /\ hyOut.verdict = "ok" =>
              LET map == hyOut.file.data
              IN  /\ hyOut.file.ok
                  /\ Len(map) = Len(hyIds)
                  /\ \A j \in 1..Len(hyIds) :
                        \E e \in 1..Len(map) :
                            /\ map[e].k = hyIds[j]
                            /\ map[e].v = RemoteMetadata(hyIds[j])
        /\ (\E c \in 1..Len(hyKinds) :
                /\ hyKinds[c] \in {"short", "long"}
                /\ \A b \in 1..c : hyKinds[b] \in {"exact", "short", "long"})
            => ~hyOut.file.exists

\* C30: for a folder whose conversation artifact exists the threading step
\* returns success and leaves the artifact as it is, whether the folder's
\* metadata artifact is there or missing.
C30_ExistenceMarksComplete ==
    (rtPc = "done" /\ rtConv.exists /\ (rtMeta.ok \/ ~rtMeta.exists)) =>
        /\ rtOut.verdict = "ok"
        /\ rtOut.conv = rtConv

\* the get-attachments calls of the current run that were answered
FetchedAttachmentLists ==
    {i \in DOMAIN arCalls :
        arCalls[i].route = "get-attachments" /\ arCalls[i].outcome = "ok"}

\* C38: when the dedicated get-attachments fetch for a message succeeds, the
\* attachment manifest written for the bundle is the fetched list, also when
\* that list is empty; the attachments embedded in the message record are
\* used only when the fetch is unavailable or fails.
C38_DedicatedListWins ==
    arRun.cmd = "download" =>
        \A i \in DOMAIN arCalls :
            arCalls[i].route = "get-attachments" =>
                LET n == arCalls[i].msg
                    written == arDir.bundles[n].attachments
                IN  IF i \in FetchedAttachmentLists
                    THEN written = RemoteMessage(n).dedicated
                    ELSE arCalls[i].outcome = "raise"
                            \/ written = RemoteMessage(n).embedded

\* the (folder, conversation, message) shortcodes an artifact gives a message
BdTriple(payload, id) ==
    LET conversations == payload.conversations
        g == CHOOSE g \in 1..Len(conversations) :
                 \E j \in 1..Len(conversations[g].messages) :
                     conversations[g].messages[j].id = id
        j == CHOOSE j \in 1..Len(conversations[g].messages) :
                 conversations[g].messages[j].id = id
    IN  <<payload.folderShortcode, conversations[g].conversationShortcode,
          conversations[g].messages[j].shortcode>>

\* C31: on a conversation artifact the threader wrote, a download run
\* recomputes the shortcodes the artifact already holds and does not rewrite
\* it: after any number of download runs the file is the payload the
\* threader wrote, and every bundle lies under the (folder, conversation,
\* message) shortcodes that payload gives its message.
C31_ThreaderOutputFrozen ==
    bdConv.exists =>
        /\ bdConv = WrittenFile(bdFirst)
        /\ bdRun.rewrites = 0
        /\ \A dir \in DOMAIN bdCache :
              \A i \in 1..Len(bdCache[dir]) : dir = BdTriple(bdFirst, bdCache[dir][i])

\* two successful download runs over two conversations, one of them with
\* two messages
C31_Witness ==
    /\ bdRun.runs = 2
    /\ bdRun.result = "ok"
    /\ Len(bdFirst.conversations) = 2
    /\ Cardinality(DOMAIN bdCache) = 3
    /\ \A dir \in DOMAIN bdCache : Len(bdCache[dir]) = 2

\* C35: after the threading step and a successful download run, an export
\* run finds the cache directory of every message it visits, visits every
\* message the artifact lists and reports no missing cache; a cache
\* directory holds the bundle of one message only, and it is the directory
\* named by the folder, conversation and message shortcodes of that message.
C35_BundleLocationsAgree ==
    /\ (bdPc = "exported" /\ bdConv.exists /\ bdRun.result = "ok") =>
          /\ bdOut.result = "ok"
          /\ bdOut.missing = <<>>
          /\ {bdOut.visited[k] : k \in 1..Len(bdOut.visited)} = DOMAIN bdCache
    /\ \A dir \in DOMAIN bdCache :
          /\ Len(dir) = 3
          /\ \A i, j \in 1..Len(bdCache[dir]) : bdCache[dir][i] = bdCache[dir][j]
          /\ \A i \in 1..Len(bdCache[dir]) :
                dir = BdTriple(bdConv.data, bdCache[dir][i])

\* the export ran after a successful download of two messages that lie in
\* different conversations and have the same message shortcode
C35_Witness ==
    /\ bdPc = "exported"
    /\ bdRun.result = "ok"
    /\ bdOut.result = "ok"
    /\ Len(bdOut.visited) = 2
    /\ \E d1, d2 \in DOMAIN bdCache : d1 # d2 /\ d1[3] = d2[3]

\* the folders of the drawn forest in pre-order: roots in stored order, a
\* node before its children, children in stored order
TvPreOrder == [k \in 1..Len(collect_folder_nodes(tvForest)) |-> <<k>>]

TvIsPrefix(s, t) == Len(s) <= Len(t) /\ s = SubSeq(t, 1, Len(s))

\* C32: the shortcode collection, the index, the download and the export
\* each yield every folder of the forest exactly once in pre-order, and each
\* of the four stages of an index run processes the folders in that order.
C32_SamePreOrder ==
    /\ tvPc \notin {"off", "input"} =>
          /\ tvSeen.shortcodes = TvPreOrder
          /\ tvSeen.index = TvPreOrder
    /\ tvSeen.download \in {<<>>, TvPreOrder}
    /\ tvSeen.export \in {<<>>, TvPreOrder}
    /\ tvPc # "off" =>
          \A s \in 1..IndexStageCount : TvIsPrefix(tvStages[s], TvPreOrder)

\* a forest with a nested folder followed by a second root, walked by all
\* three commands after a complete index run
C32_Witness ==
    /\ tvPc = "indexed"
    /\ Len(tvForest) = 2
    /\ Len(tvForest[1].children) = 1
    /\ tvSeen.download # <<>>
    /\ tvSeen.export # <<>>
    /\ \A s \in 1..IndexStageCount : tvStages[s] = TvPreOrder

(***************************************************************************)
(* The stages of an index run.                                             *)
(***************************************************************************)
SentOn(route) == \E k \in 1..Len(calls) : calls[k].route = route

WroteIn(dirs) == \E k \in 1..Len(writes) : writes[k].dir \in dirs

ForestNodes == collect_folder_nodes(foldersFile.data)

StagesInOrder ==
    /\ SentOn("get-folder-metadata")
          => \A name \in FolderNames : IsFile(idsFiles, name)
    /\ SentOn("hydrate-message-metadata")
          => /\ sanityLog.failed = NoCount
             /\ \A k \in 1..Len(ForestNodes) :
                   Len(RequestsOn("get-folder-metadata", ForestNodes[k].id)) = 1
    /\ WroteIn({"conv"})
          => \A name \in FolderNames : IsFile(metaFiles, name)
    /\ (pc = "done" /\ failedStep.phase = "sanity")
          => /\ ~SentOn("hydrate-message-metadata")
             /\ ~WroteIn({"meta", "conv"})

\* a sanity check of the folder whose failure stands, answered with the count
\* that failed before
SameCountAgain ==
    /\ pc = "sanity"
    /\ sanityLog.failed.folder # <<>>
    /\ CurrentNode.id = sanityLog.failed.folder
    /\ calls' # calls
    /\ sanityLog'.seen = sanityLog.failed

\* C33: the stages run one after the other over all folders: no sanity-check
\* request is sent before every folder has an id-list artifact, no hydration
\* request before every folder has passed its sanity check in this run, no
\* conversation artifact is written before every folder has a metadata
\* artifact; a run that fails a sanity check hydrates and threads nothing, and
\* so does every later run in which the remote reports the same count for the
\* folder, until the index is reset
C33_StageByStage ==
    /\ []StagesInOrder
    /\ [][SameCountAgain =>
             /\ pc' = "done"
             /\ result' = "fail"
             /\ failedStep' = [phase |-> "sanity", folder |-> sanityLog.failed.folder]
             /\ sanityLog'.failed = sanityLog.failed]_vars

\* a rerun over the checkpointed id lists: an earlier folder passed, then the
\* folder that failed before failed again on the same count
C33_Witness ==
    /\ pc = "done"
    /\ result = "fail"
    /\ failedStep.phase = "sanity"
    /\ sanityLog.failed.folder = failedStep.folder
    /\ sanityLog.seen = sanityLog.failed
    /\ sanityLog.again
    /\ ~SentOn("get-folders")
    /\ ~SentOn("get-id-list")
    /\ Len(calls) >= 2
    /\ ~WroteIn({"ids", "meta", "conv"})

\* the run that just returned 0 was not a reset: it wrote the folder files
ReturnedSuccess == pc = "done" /\ result = "ok" /\ writes # <<>>

\* C34: when an index run without reset returns success, the folder
\* checkpoint and the folder shortcode map exist, every folder of the forest
\* has a shortcode, and every folder has an id-list artifact, a metadata
\* artifact and a conversation artifact
C34_SuccessIsComplete ==
    ReturnedSuccess =>
        /\ foldersFile.exists
        /\ shortcodesFile.exists
        /\ \A k \in 1..Len(ForestNodes) :
              /\ ForestNodes[k].shortcode # <<>>
              /\ IsFile(idsFiles, ForestNodes[k].shortcode)
              /\ IsFile(metaFiles, ForestNodes[k].shortcode)
              /\ IsFile(convFiles, ForestNodes[k].shortcode)

\* a run over the three folders returned 0 after threading the last of them
C34_Witness ==
    /\ ReturnedSuccess
    /\ Len(ForestNodes) = 3
    /\ writes[Len(writes)] =
          [dir |-> "conv", name |-> ForestNodes[3].shortcode, what |-> "write"]

(***************************************************************************)
(* SpecListing: the index runs of Spec, where a listing that can take a    *)
(* step takes it: the helper is sequential code and every request returns  *)
(* or raises within its timeout (call_route.py line 107).                  *)
(***************************************************************************)
\* mailboxes whose folders take two pages, one page, and one empty page
ListingScenarios ==
    { SizesOf(MaxFolderSize, 0, INDEX_GET_METADATA_CHUNK_SIZE),
      SizesOf(1, MaxFolderSize, 2 * INDEX_GET_METADATA_CHUNK_SIZE) }

ListingInit ==
    /\ hashPos = 5
    /\ remoteSizes \in ListingScenarios
    /\ IndexIdle
    /\ PureIdle("none")

SpecListing ==
    /\ ListingInit
    /\ [][Next]_vars
    /\ WF_vars(IdsBegin)
    /\ WF_vars(IdsNextPage)
    /\ WF_vars(IdsOpen)
    /\ WF_vars(IdsWrite)

\* the pages the remote returned to the requests reqs of one folder
PagesOf(reqs) ==
    [k \in 1..Len(reqs) |-> RemotePage(reqs[k].folderId, reqs[k].nextLink)]

RECURSIVE IdsOfPages(_)
IdsOfPages(pages) ==
    IF pages = <<>> THEN <<>>
    ELSE pages[1].messageIds \o IdsOfPages(Tail(pages))

ListedInThisRun(node) ==
    \E k \in 1..Len(writes) :
        writes[k] = [dir |-> "ids", name |-> node.shortcode, what |-> "write"]

ListingFollowsCursors ==
    \A n \in 1..Len(ForestNodes) :
        LET node == ForestNodes[n]
            reqs == RequestsOn("get-id-list", node.id)
            pages == PagesOf(reqs)
        IN  /\ reqs # <<>> => reqs[1].nextLink = <<>>
            /\ \A k \in 2..Len(reqs) :
                  /\ pages[k - 1].nextLink # <<>>
                  /\ reqs[k].nextLink = pages[k - 1].nextLink
            /\ ListedInThisRun(node) =>
                  /\ reqs # <<>>
                  /\ pages[Len(pages)].nextLink = <<>>
                  /\ idsFiles[node.shortcode] = WrittenFile(IdsOfPages(pages))

ListingPcs == {"ids", "ids_page", "ids_write"}

ListingOf(i) == pc \in ListingPcs /\ local.i = i

\* C36: the listing of a folder without an id-list artifact asks for the
\* first page without a cursor, then for one page per cursor it was given; it
\* ends at a page without a cursor or at a failed request; the file it writes
\* is the concatenation, in order, of the ids of all the pages; and, the
\* remote's chain of cursors being finite, every listing ends
C36_ListingFollowsCursors ==
    /\ []ListingFollowsCursors
    /\ \A i \in 1..Cardinality(RemoteFolderIds) : ListingOf(i) ~> ~ListingOf(i)

\* a listing of two pages has just been written
C36_Witness ==
    /\ writes # <<>>
    /\ writes[Len(writes)].dir = "ids"
    /\ writes[Len(writes)].what = "write"
    /\ \E n \in 1..Len(ForestNodes) :
          /\ ForestNodes[n].shortcode = writes[Len(writes)].name
          /\ Len(RequestsOn("get-id-list", ForestNodes[n].id)) = 2
          /\ Len(idsFiles[ForestNodes[n].shortcode].data) > PageSize

\* call_route has returned or has let an exception out, after starting t
SpLeft == spPc \in {"returned", "raised"} /\ spThread # "none"

\* C37: in every call of call_route that reaches the request the progress
\* thread is told to stop and is joined before call_route returns or lets an
\* exception out, and the value returned is the one the response determines,
\* whatever the thread did meanwhile
C37_SpinnerJoined ==
    /\ SpLeft => (spStop /\ spThread = "exited")
    /\ (spPc = "returned" /\ spThread # "none") => spValue = ReturnedFor(spResp)

\* what holds of every call: one that returns, or that lets out an exception
\* of the request, has set stop and joined the thread
C37_JoinedUnlessInterrupted ==
    (SpLeft /\ spPending # "interrupt") => (spStop /\ spThread = "exited")

C37_Interrupted ==
    /\ spPc = "raised"
    /\ spPending = "interrupt"
    /\ spStop
    /\ spThread = "printing"

IndexPaths(tree) == {p \in tree : UnderRoot(IndexRoot, p) /\ p # IndexRoot}

CachePaths(tree) == {p \in tree : UnderRoot(CachesRoot, p) /\ p # CachesRoot}

\* a tree of the working directory, its root included
Below(root, tree) == {p \in tree : UnderRoot(root, p)}

ResetFrames ==
    /\ rsOp = "index-reset" =>
          /\ IndexPaths(rsTree) = {}
          /\ Below(CachesRoot, rsTree) = Below(CachesRoot, rsBefore)
          /\ Below(JwtPath, rsTree) = Below(JwtPath, rsBefore)
          /\ rsResult = 0
    /\ rsOp = "download-reset" =>
          /\ CachePaths(rsTree) = {}
          /\ Below(IndexRoot, rsTree) = Below(IndexRoot, rsBefore)
          /\ Below(JwtPath, rsTree) = Below(JwtPath, rsBefore)
          /\ rsResult = 0

\* C39: an index run with reset removes every index artifact, sends no
\* request, returns 0 and leaves the cache tree and the credential file as
\* they were; a download with reset empties the cache tree, sends no request
\* and leaves every index artifact as it was
C39_ResetClearsOwnStage ==
    /\ []ResetFrames
    /\ [][rsOp' \in {"index-reset", "download-reset"} => rsCalls' = rsCalls]_vars

\* an index reset of a directory that held every index artifact, a bundle in
\* the cache tree and the credential file
C39_Witness ==
    /\ rsOp = "index-reset"
    /\ IndexArtifacts \subseteq rsBefore
    /\ CacheFiles \subseteq rsTree
    /\ JwtPath \in rsTree
    /\ rsCalls > 0

\* a download reset of a directory that held bundles and every index artifact
C39_WitnessDownload ==
    /\ rsOp = "download-reset"
    /\ CacheFiles \subseteq rsBefore
    /\ IndexArtifacts \subseteq rsTree
    /\ rsCalls > 0

SdDeleteCalls == {k \in 1..Len(sdCalls) : sdCalls[k].route = "delete"}

\* the ids of the matches the find returned, in their order
RECURSIVE IdsOfMatches(_)
IdsOfMatches(matches) ==
    IF matches = <<>> THEN <<>>
    ELSE (IF Head(matches).id = <<>> THEN <<>> ELSE <<Head(matches).id>>)
         \o IdsOfMatches(Tail(matches))

\* C40: a delete request is sent only after a successful find that returned
\* at least one match, only with report mode off, and only when the user
\* said yes or --yes waived the question; the ids it carries are the ids of
\* the matches the find returned; after a failed find or a declined
\* confirmation no delete request is sent
C40_NoDeleteWithoutConfirmation ==
    /\ \A k \in SdDeleteCalls :
          /\ k = 2
          /\ sdCalls[1].route = "find"
          /\ sdFind.kind = "matches"
          /\ Len(sdFind.matches) >= 1
          /\ ~sdArgs.report
          /\ sdArgs.assume_yes \/ sdAnswer = "yes"
          /\ sdCalls[k].messageIds = IdsOfMatches(sdFind.matches)
    /\ (sdFind.kind # "matches" \/ sdAnswer \in {"no", "abort"}) => SdDeleteCalls = {}

\* the user said yes and the ids of two matches were sent
C40_Witness ==
    /\ sdPc = "done"
    /\ ~sdArgs.assume_yes
    /\ sdAnswer = "yes"
    /\ SdDeleteCalls = {2}
    /\ Len(sdCalls[2].messageIds) = 2

====
